---- MODULE Spec2Model ----
(***************************************************************************)
(* The AgarMMO server (src/server/): the acceptor thread of NetworkManager  *)
(* (rate limiter, connection cap), the ClientThread of every accepted      *)
(* connection (handshake, read loop, packet handlers, cleanup),            *)
(* NetworkManager.shutdown, and the tick of NetworkManager.mainloop        *)
(* (growth, skills, food, eating, food replenishment), over the shared     *)
(* world (players, balls, connections).                                    *)
(*                                                                         *)
(* Every `with server.lock:` block of the source is one atomic action;     *)
(* code outside the lock is a separate action, so that other threads run   *)
(* between the two.  `sent` records, per connection, the messages the      *)
(* server passed to sendall, in order; a failing sendall is the choice of  *)
(* an outcome of the send action.  A tick is one action: the whole block   *)
(* under the lock.  `order` is the insertion order of the players dict,    *)
(* `lastTick` records what the last tick did (players eaten, score taken,  *)
(* food consumed and created).  Coordinates, radii and forces are whole    *)
(* numbers; Sqrt and Quotient are defined only where the result is whole.  *)
(***************************************************************************)
EXTENDS Integers, Sequences, FiniteSets, TLC

(* ---------------- bounds of the model ---------------- *)
NumIds == 3
MaxAccepts == 6
MaxTime == 60
ClockStep == 30
MaxMsgs == 2
MaxCleanupCalls == 2
MaxTicks == 2
MaxBallCount == 2
MaxBuffer == 8
MaxShutdownCalls == 2
MaxSendFailures == 3
MaxGrowTime == 90
MaxFeedBalls == 3
\* the connect calls that the server answers with a rejection
MaxRejections == 2

(* ---------------- configuration values ---------------- *)
MaxConnections == 2
MaxNameLength == 1
WorldWidth == 8
WorldHeight == 8
Padding == 1
NewbornRadius == 1
StartVelocity == 1
MinBalls == 1
MaxBalls == 2
FoodRadius == 1
StartLocationAttempts == 1
PushDuration == 30
PullDuration == 30
AdultRadius == 4
GrowthAmount == 1
EatingThresholdNum == 3
EatingThresholdDen == 2
PushBaseRadius == 1
PushForce == 1
MinPushForceMultiplier == 1
PushSizeThreshold == 2
PushForceScale == 1
MinDistance == 1
PullBaseRadius == 1
PullForce == 12
PullSizeThreshold == 2
PullForceScale == 1
\* player_cfg['size']['growth_duration']: three steps of the model's clock, so
\* that a player grows by one unit of radius per step, from its newborn radius
\* to its adult radius
GrowthDuration == 3 * ClockStep

\* ConnectionConfig.reconnect_attempts and the max_retries of _send_with_retry
ReconnectAttempts == 2
SendRetries == 2

(* ---------------- program constants ---------------- *)
RateLimit == 5
RateWindow == 60

Ids == 0 .. (NumIds - 1)
NoThread == -1
Addrs == {"10.0.0.1", "10.0.0.2"}
Names == {<<>>, <<"A">>, <<"a">>}
Dirs == {<<1, 0>>, <<-1, 0>>, <<0, 1>>}

VARIABLES
    running,             \* NetworkManager.running
    accepting,           \* the acceptor thread is in its loop
    start,               \* NetworkManager.start
    startTime,           \* NetworkManager.start_time
    connections,         \* NetworkManager.connections
    nextId,              \* NetworkManager._id
    clientThreads,       \* keys of NetworkManager.client_threads
    connectionAttempts,  \* NetworkManager.connection_attempts (absent key = <<>>)
    players,             \* the shared players dict: client id -> Player
    balls,               \* the shared list of Food
    now,                 \* time.time()
    pc,                  \* position of each ClientThread
    sessRunning,         \* ClientThread.running
    connOpen,            \* the session's socket has not been closed by the server
    first,               \* what the session's first _recv_message produced
    connName,            \* the local `name` of ClientThread._run
    sent,                \* messages passed to sendall on the session's socket
    requests,            \* the get_game_state and ping packets the session dispatched
    acc,                 \* the connection the acceptor handled last
    acceptCount,         \* number of connections accepted so far
    passes,              \* per address, the times at which a connection passed the rate limiter
    cleanupCalls,        \* number of cleanup() invocations per session
    order,               \* the keys of the players dict in insertion order
    ballCount,           \* server_cfg['ball_count']: min and max
    lastTick,            \* the ticks run so far and what the last one ate
    outgoing,            \* codec: the Packet object handed to to_json (<<>> = none)
    wire,                \* codec: the JSON text json.dumps produced
    incoming,            \* codec: what Packet.from_json made of the text
    buffer,              \* the local `buffer` of ClientThread._run: received, unframed bytes
    lastActivity,        \* ClientThread.last_activity
    decodeLog,           \* per session, what from_json made of each framed message
    lock,                \* the owner of NetworkManager.lock (NoThread = not held)
    inTick,              \* mainloop is inside its `with self.lock:` block
    tickSteps,           \* the statements of that block run in the current or last tick
    handling,            \* per session, the packet whose handler is inside `with server.lock:`
    shutdownCalls,       \* number of shutdown() invocations
    net                  \* the client's Network object and the position of its thread

vars == <<running, accepting, start, startTime, connections, nextId, clientThreads,
          connectionAttempts, players, balls, now, pc, sessRunning, connOpen, first,
          connName, sent, requests, acc, acceptCount, passes, cleanupCalls,
          order, ballCount, lastTick, outgoing, wire, incoming,
          buffer, lastActivity, decodeLog, lock, inTick, tickSteps, handling,
          shutdownCalls, net>>

\* the server's state
serverVars == <<running, accepting, start, startTime, connections, nextId, clientThreads,
                connectionAttempts, players, balls, now, pc, sessRunning, connOpen, first,
                connName, sent, requests, acc, acceptCount, passes, cleanupCalls,
                order, ballCount, lastTick>>

\* what only the game loop writes or reads
tickVars == <<ballCount, lastTick>>

\* one Packet on its way through to_json and from_json
codecVars == <<outgoing, wire, incoming>>

\* the byte stream of each session and what was framed out of it
ioVars == <<buffer, lastActivity, decodeLog>>

\* the lock and the threads' positions relative to it
lockVars == <<lock, inTick, tickSteps, handling, shutdownCalls>>

\* what the handshake, the coarse handlers, shutdown and the tick leave alone
auxVars == <<codecVars, ioVars, lockVars, net>>

\* what only the acceptor writes
accVars == <<accepting, start, startTime, nextId, connectionAttempts, acc, acceptCount, passes>>

(* ---------------- helpers ---------------- *)
Max2(a, b) == IF a >= b THEN a ELSE b
Min2(a, b) == IF a <= b THEN a ELSE b

\* random.randint(padding, world_w - padding) x random.randint(padding, world_h - padding)
RandomPoints ==
    {<<x, y>> : x \in Padding .. (WorldWidth - Padding), y \in Padding .. (WorldHeight - Padding)}

\* Food(x, y, color)
Food(x, y) == [x |-> x, y |-> y, radius |-> FoodRadius]

\* Player(player_id, name, x, y)
Player(id, name, x, y) ==
    [id |-> id, name |-> name, x |-> x, y |-> y, score |-> 0, radius |-> NewbornRadius,
     push_skill_active |-> FALSE, push_skill_end_time |-> 0,
     pull_skill_active |-> FALSE, pull_skill_end_time |-> 0,
     birth_time |-> now]

Registered == DOMAIN players

(* ---------------- initial state ---------------- *)
\* GameManager._initialize_food with ball_count min = lo and max = hi: one
\* Food at a random point (drawn from pts) for every number in range(lo, hi)
InitialFood(lo, hi, pts) ==
    {[i \in 1 .. (hi - lo) |-> Food(ps[i][1], ps[i][2])] : ps \in [1 .. (hi - lo) -> pts]}

\* no packet is on its way through the codec
InitCodecIdle ==
    /\ outgoing = <<>>
    /\ wire = <<>>
    /\ incoming = <<>>

\* no session has received a byte
InitIo ==
    /\ buffer = [s \in Ids |-> <<>>]
    /\ lastActivity = [s \in Ids |-> 0]
    /\ decodeLog = [s \in Ids |-> <<>>]

\* the lock is free, no tick and no handler has begun
InitLock ==
    /\ lock = NoThread
    /\ inTick = FALSE
    /\ tickSteps = <<>>
    /\ handling = [s \in Ids |-> <<>>]
    /\ shutdownCalls = 0

\* Network.__init__
InitNet ==
    net = [connected |-> FALSE, player_id |-> FALSE, reconnect_attempts |-> 0,
           should_reconnect |-> TRUE, shutdown_event |-> FALSE,
           pc |-> "idle", rpc |-> "idle", depth |-> 0, total |-> 0, failures |-> 0,
           attempt |-> 0, log |-> <<>>, result |-> "none", rejections |-> 0]

\* everything but the server's threads is at rest
InitAux == InitCodecIdle /\ InitIo /\ InitLock /\ InitNet

\* the server after NetworkManager.connect_server, before the first connection,
\* with ball_count cfg and one of the lists foods as the food of the world
InitServer(cfg, foods) ==
    /\ running = TRUE
    /\ accepting = TRUE
    /\ start = FALSE
    /\ startTime = 0
    /\ connections = 0
    /\ nextId = 0
    /\ clientThreads = {}
    /\ connectionAttempts = [a \in Addrs |-> <<>>]
    /\ players = [i \in {} |-> 0]
    /\ balls \in foods
    /\ now = 0
    /\ pc = [s \in Ids |-> "unborn"]
    /\ sessRunning = [s \in Ids |-> FALSE]
    /\ connOpen = [s \in Ids |-> FALSE]
    /\ first = [s \in Ids |-> "none"]
    /\ connName = [s \in Ids |-> <<>>]
    /\ sent = [s \in Ids |-> <<>>]
    /\ requests = [s \in Ids |-> <<>>]
    /\ acc = [ip |-> "none", sent |-> <<>>, closed |-> FALSE, thread |-> NoThread]
    /\ acceptCount = 0
    /\ passes = [a \in Addrs |-> <<>>]
    /\ cleanupCalls = [s \in Ids |-> 0]
    /\ order = <<>>
    /\ ballCount = cfg
    /\ lastTick = [n |-> 0, eaten |-> {}, taken |-> 0, consumed |-> {}, created |-> 0]

InitState(cfg, foods) == InitServer(cfg, foods) /\ InitAux

\* a configuration whose ball_count min equals max: no food before the first tick
Init ==
    InitState([min |-> MaxBalls, max |-> MaxBalls], InitialFood(MaxBalls, MaxBalls, RandomPoints))

\* the row of the world on which every radius fits between the paddings
Row == WorldHeight \div 2

\* a configuration with ball_count min < max
InitFed ==
    InitState([min |-> MinBalls, max |-> MaxBalls],
              InitialFood(MinBalls, MaxBalls, {<<Padding, Row>>, <<Row, Row>>}))

(* ---------------- acceptor: NetworkManager.connection_thread ---------------- *)
\* valid_timestamps = [ts for ts in timestamps if current_time - ts < 60]
Prune(attempts, t) ==
    [a \in Addrs |-> SelectSeq(attempts[a], LAMBDA ts : t - ts < RateWindow)]

\* variant: the limit is tested with > instead of >=
RateLimitedOffByOne(attempts, ip) == Len(attempts[ip]) > RateLimit

\* len(self.connection_attempts.get(client_ip, [])) >= 5
RateLimited(attempts, ip) == Len(attempts[ip]) >= RateLimit

\* variant: the cap is tested with > instead of >=
ServerFullOffByOne == connections > MaxConnections

\* self.connections >= self.max_connections
ServerFull == connections >= MaxConnections

\* One iteration of the acceptor loop for a connection accepted from address ip.
\* sendOk is the outcome of conn.sendall on the server_full branch: an exception
\* there leaves the loop through `except Exception: ... break`, and the socket
\* is closed when its last reference, the local `conn`, is dropped.
Accept(ip, sendOk) ==
    /\ running
    /\ accepting
    /\ acceptCount' = acceptCount + 1
    /\ LET pruned == Prune(connectionAttempts, now)
           recorded == [pruned EXCEPT ![ip] = Append(@, now)]
       IN  IF RateLimited(pruned, ip)
           THEN /\ connectionAttempts' = pruned
                /\ acc' = [ip |-> ip, sent |-> <<>>, closed |-> TRUE, thread |-> NoThread]
                /\ UNCHANGED <<accepting, start, startTime, connections, nextId,
                               clientThreads, passes, pc, sessRunning, connOpen, lastActivity>>
           ELSE IF ServerFull
           THEN /\ connectionAttempts' = recorded
                /\ passes' = [passes EXCEPT ![ip] = Append(@, now)]
                /\ acc' = [ip |-> ip, sent |-> <<"server_full">>, closed |-> TRUE,
                           thread |-> NoThread]
                /\ accepting' = sendOk
                /\ UNCHANGED <<start, startTime, connections, nextId, clientThreads,
                               pc, sessRunning, connOpen, lastActivity>>
           ELSE /\ nextId < NumIds
                /\ sendOk
                /\ connectionAttempts' = recorded
                /\ passes' = [passes EXCEPT ![ip] = Append(@, now)]
                /\ start' = TRUE
                /\ startTime' = IF start THEN startTime ELSE now
                /\ nextId' = nextId + 1
                /\ connections' = connections + 1
                /\ clientThreads' = clientThreads \cup {nextId}
                /\ acc' = [ip |-> ip, sent |-> <<>>, closed |-> FALSE, thread |-> nextId]
                /\ pc' = [pc EXCEPT ![nextId] = "handshake"]
                /\ sessRunning' = [sessRunning EXCEPT ![nextId] = TRUE]
                /\ connOpen' = [connOpen EXCEPT ![nextId] = TRUE]
                /\ lastActivity' = [lastActivity EXCEPT ![nextId] = now]
                /\ UNCHANGED accepting
    /\ UNCHANGED <<net, codecVars, lockVars, buffer, decodeLog, order, tickVars, running, players, balls, now, first, connName, sent, requests, cleanupCalls>>

\* time.time() moves on
AdvanceClockTo(limit) ==
    /\ now + ClockStep <= limit
    /\ now' = now + ClockStep
    /\ UNCHANGED <<auxVars, order, tickVars, running, accepting, start, startTime, connections, nextId, clientThreads,
                   connectionAttempts, players, balls, pc, sessRunning, connOpen, first,
                   connName, sent, requests, acc, acceptCount, passes, cleanupCalls>>

AdvanceClock == AdvanceClockTo(MaxTime)

(* ---------------- handshake: ClientThread._run, lines 42-85 ---------------- *)
\* any(p.name == name for p in server.players.values())
NameTaken(name) == \E i \in DOMAIN players : players[i].name = name

\* the name-length test of the earlier revision of the handshake (src/server.py):
\* not (name_length <= 0 or name_length > max_name_length)
ValidNameLength(name) == Len(name) > 0 /\ Len(name) <= MaxNameLength

\* _send_message on the session's socket: the message is handed to sendall
Send(s, msg) == sent' = [sent EXCEPT ![s] = Append(@, msg)]

\* `self.running = False; return` and every exception path of _run: run()'s
\* finally clause is next
Leave(s) ==
    /\ sessRunning' = [sessRunning EXCEPT ![s] = FALSE]
    /\ pc' = [pc EXCEPT ![s] = "cleanup"]

\* the first _recv_message yields no ConnectPacket: socket.timeout, no data
\* (peer closed, or the socket was closed by stop()), bytes that from_json
\* rejects, or a packet of another type
HsNoConnect(s, outcome) ==
    /\ pc[s] = "handshake"
    /\ outcome \in {"timeout", "eof", "undecodable", "nonconnect"}
    /\ ~connOpen[s] => outcome = "eof"
    /\ first' = [first EXCEPT ![s] = "noconnect"]
    /\ Leave(s)
    /\ UNCHANGED <<auxVars, order, tickVars, accVars, running, connections, clientThreads, players, balls, now,
                   connOpen, connName, sent, requests, cleanupCalls>>

\* the first message is a ConnectPacket: name = initial_packet.name
HsRecvConnect(s, name) ==
    /\ pc[s] = "handshake"
    /\ connOpen[s]
    /\ first' = [first EXCEPT ![s] = "connect"]
    /\ connName' = [connName EXCEPT ![s] = name]
    /\ pc' = [pc EXCEPT ![s] = "hs_check"]
    /\ UNCHANGED <<auxVars, order, tickVars, accVars, running, connections, clientThreads, players, balls, now,
                   sessRunning, connOpen, sent, requests, cleanupCalls>>

\* variant: the `return` after the username_taken reply is missing
HsCheckNoReturn(s) ==
    /\ pc[s] = "hs_check"
    /\ IF NameTaken(connName[s])
       THEN Send(s, "username_taken")
       ELSE UNCHANGED sent
    /\ pc' = [pc EXCEPT ![s] = "hs_send"]
    /\ UNCHANGED <<auxVars, order, tickVars, accVars, running, connections, clientThreads, players, balls, now,
                   sessRunning, connOpen, first, connName, requests, cleanupCalls>>

\* with server.lock: the name check, and the username_taken reply inside it
HsCheck(s) ==
    /\ pc[s] = "hs_check"
    /\ IF NameTaken(connName[s])
       THEN /\ Send(s, "username_taken")
            /\ Leave(s)
       ELSE /\ pc' = [pc EXCEPT ![s] = "hs_send"]
            /\ UNCHANGED <<sent, sessRunning>>
    /\ UNCHANGED <<auxVars, order, tickVars, accVars, running, connections, clientThreads, players, balls, now,
                   connOpen, first, connName, requests, cleanupCalls>>

\* self._send_message(player_id_packet...), outside the lock; sendOk = FALSE is
\* sendall raising, which the handshake's `except Exception` turns into a return
HsSendId(s, sendOk) ==
    /\ pc[s] = "hs_send"
    /\ ~connOpen[s] => ~sendOk
    /\ Send(s, "player_id")
    /\ IF sendOk
       THEN /\ pc' = [pc EXCEPT ![s] = "hs_register"]
            /\ UNCHANGED sessRunning
       ELSE Leave(s)
    /\ UNCHANGED <<auxVars, order, tickVars, accVars, running, connections, clientThreads, players, balls, now,
                   connOpen, first, connName, requests, cleanupCalls>>

\* dis <= self.player_start_radius + player.radius + padding  (squared)
TooClose(x, y, p) ==
    (x - p.x) * (x - p.x) + (y - p.y) * (y - p.y)
        <= (NewbornRadius + p.radius + Padding) * (NewbornRadius + p.radius + Padding)

ValidPosition(x, y) == \A i \in DOMAIN players : ~TooClose(x, y, players[i])

\* GameManager.get_start_location: the first valid candidate among the attempts,
\* or, when every attempt hit an invalid point, an unchecked random point
GetStartLocation ==
    {pt \in RandomPoints : ValidPosition(pt[1], pt[2])}
    \cup (IF StartLocationAttempts = 0
             \/ \E pt \in RandomPoints : ~ValidPosition(pt[1], pt[2])
          THEN RandomPoints ELSE {})

\* server.players[self.client_id] = Player(...)
WithPlayer(s, p) == [i \in DOMAIN players \cup {s} |-> IF i = s THEN p ELSE players[i]]

\* x, y = get_start_location(server.players); server.players[client_id] = Player(...)
\* (no lock is held here)
HsRegister(s, pt) ==
    /\ pc[s] = "hs_register"
    /\ pt \in GetStartLocation
    /\ players' = WithPlayer(s, Player(s, connName[s], pt[1], pt[2]))
    /\ order' = IF s \in DOMAIN players THEN order ELSE Append(order, s)
    /\ pc' = [pc EXCEPT ![s] = "active"]
    /\ UNCHANGED <<auxVars, tickVars, accVars, running, connections, clientThreads, balls, now,
                   sessRunning, connOpen, first, connName, sent, requests, cleanupCalls>>

(* ---------------- read loop and handlers: lines 88-161 ---------------- *)
\* max(padding + radius, min(v, world - padding - radius))
Clamp(v, world, radius) == Max2(Padding + radius, Min2(v, world - Padding - radius))

\* Player.move(dx, dy, world_w, world_h, padding)
PlayerMove(p, dx, dy) ==
    [p EXCEPT !.x = Clamp(p.x + dx * StartVelocity, WorldWidth, p.radius),
              !.y = Clamp(p.y + dy * StartVelocity, WorldHeight, p.radius)]

\* GameManager.use_skill
UseSkill(p, skill_name) ==
    IF skill_name = "push"
    THEN [p EXCEPT !.push_skill_active = TRUE, !.push_skill_end_time = now + PushDuration]
    ELSE IF skill_name = "pull"
    THEN [p EXCEPT !.pull_skill_active = TRUE, !.pull_skill_end_time = now + PullDuration]
    ELSE p

SkillNames == {"push", "pull", "dash"}

\* the inner loop hands one framed, decoded packet to _handle_packet
Dispatching(s) ==
    /\ pc[s] = "active"
    /\ sessRunning[s]

\* a packet that asks for a reply is dispatched
Request(s, type) ==
    /\ Len(requests[s]) < MaxMsgs
    /\ requests' = [requests EXCEPT ![s] = Append(@, type)]

\* variant: the move is applied to every player of the map
HandleMoveAll(s, dx, dy) ==
    /\ Dispatching(s)
    /\ players' = [i \in DOMAIN players |-> PlayerMove(players[i], dx, dy)]
    /\ UNCHANGED <<auxVars, order, tickVars, accVars, running, connections, clientThreads, balls, now, pc,
                   sessRunning, connOpen, first, connName, sent, requests, cleanupCalls>>

\* MovePacket
HandleMove(s, dx, dy) ==
    /\ Dispatching(s)
    /\ players' = IF s \in DOMAIN players
                  THEN [players EXCEPT ![s] = PlayerMove(@, dx, dy)]
                  ELSE players
    /\ UNCHANGED <<auxVars, order, tickVars, accVars, running, connections, clientThreads, balls, now, pc,
                   sessRunning, connOpen, first, connName, sent, requests, cleanupCalls>>

\* SkillPacket
HandleSkill(s, skill_name) ==
    /\ Dispatching(s)
    /\ players' = IF s \in DOMAIN players
                  THEN [players EXCEPT ![s] = UseSkill(@, skill_name)]
                  ELSE players
    /\ UNCHANGED <<auxVars, order, tickVars, accVars, running, connections, clientThreads, balls, now, pc,
                   sessRunning, connOpen, first, connName, sent, requests, cleanupCalls>>

\* variant: the membership test of _send_game_state is inverted
HandleGetGameStateInverted(s, outcome) ==
    /\ Dispatching(s)
    /\ outcome \in {"ok", "reset", "oserror"}
    /\ Request(s, "get_game_state")
    /\ IF s \in DOMAIN players
       THEN UNCHANGED <<sent, sessRunning, pc>>
       ELSE /\ Send(s, "game_state")
            /\ sessRunning' = [sessRunning EXCEPT ![s] = (outcome = "ok")]
            /\ pc' = [pc EXCEPT ![s] = IF outcome = "oserror" THEN "cleanup" ELSE "active"]
    /\ UNCHANGED <<auxVars, order, tickVars, accVars, running, connections, clientThreads, players, balls, now,
                   connOpen, first, connName, cleanupCalls>>

\* GetGameStatePacket -> _send_game_state.  outcome: "ok"; "reset" is sendall
\* raising ConnectionResetError or BrokenPipeError (caught: running = False);
\* "oserror" is any other exception of sendall, which leaves the read loop
HandleGetGameState(s, outcome) ==
    /\ Dispatching(s)
    /\ outcome \in {"ok", "reset", "oserror"}
    /\ Request(s, "get_game_state")
    /\ IF s \notin DOMAIN players
       THEN UNCHANGED <<sent, sessRunning, pc>>
       ELSE /\ Send(s, "game_state")
            /\ sessRunning' = [sessRunning EXCEPT ![s] = (outcome = "ok")]
            /\ pc' = [pc EXCEPT ![s] = IF outcome = "oserror" THEN "cleanup" ELSE "active"]
    /\ UNCHANGED <<auxVars, order, tickVars, accVars, running, connections, clientThreads, players, balls, now,
                   connOpen, first, connName, cleanupCalls>>

\* PingPacket: the pong is sent at once; an exception of sendall leaves the loop
HandlePing(s, sendOk) ==
    /\ Dispatching(s)
    /\ Request(s, "ping")
    /\ Send(s, "pong")
    /\ pc' = [pc EXCEPT ![s] = IF sendOk THEN "active" ELSE "cleanup"]
    /\ UNCHANGED <<auxVars, order, tickVars, accVars, running, connections, clientThreads, players, balls, now,
                   sessRunning, connOpen, first, connName, cleanupCalls>>

\* a PlayerIdPacket (logged as a reconnect), a packet type without a handler
\* (logged), or a message from_json rejects with ValueError (logged, dropped)
HandleLogged(s, type) ==
    /\ Dispatching(s)
    /\ type \in {"player_id", "unhandled", "invalid"}
    /\ UNCHANGED <<auxVars, order, tickVars, accVars, running, connections, clientThreads, players, balls, now, pc,
                   sessRunning, connOpen, first, connName, sent, requests, cleanupCalls>>

\* `while self.running and server.running` is false
LoopExit(s) ==
    /\ pc[s] = "active"
    /\ ~sessRunning[s] \/ ~running
    /\ pc' = [pc EXCEPT ![s] = "cleanup"]
    /\ UNCHANGED <<auxVars, order, tickVars, accVars, running, connections, clientThreads, players, balls, now,
                   sessRunning, connOpen, first, connName, sent, requests, cleanupCalls>>

\* a `break` of the read loop: no data for client_timeout, recv returns b''
\* (peer closed), a socket error, or any other exception
LoopBreak(s, why) ==
    /\ pc[s] = "active"
    /\ sessRunning[s]
    /\ why \in {"idle_timeout", "peer_closed", "io_error", "exception"}
    /\ pc' = [pc EXCEPT ![s] = "cleanup"]
    /\ UNCHANGED <<auxVars, order, tickVars, accVars, running, connections, clientThreads, players, balls, now,
                   sessRunning, connOpen, first, connName, sent, requests, cleanupCalls>>

(* ---------------- stop, cleanup, shutdown ---------------- *)
\* variant: the entry stays in the players map
CleanupPlayersKept(s) == players

\* del server.players[self.client_id], if it is there
CleanupPlayers(s) == [i \in DOMAIN players \ {s} |-> players[i]]

\* variant: the decrement stands outside the membership test
CleanupConnectionsAlways(s) == connections - 1

\* server.connections -= 1, inside `if self.client_id in server.players`
CleanupConnections(s) == IF s \in DOMAIN players THEN connections - 1 ELSE connections

\* ClientThread.cleanup: stop(), then the locked removal
CleanupBody(s) ==
    /\ sessRunning' = [sessRunning EXCEPT ![s] = FALSE]
    /\ connOpen' = [connOpen EXCEPT ![s] = FALSE]
    /\ players' = CleanupPlayers(s)
    /\ order' = SelectSeq(order, LAMBDA i : i # s)
    /\ connections' = CleanupConnections(s)
    /\ cleanupCalls' = [cleanupCalls EXCEPT ![s] = @ + 1]

\* run(): finally: self.cleanup()
Cleanup(s) ==
    /\ pc[s] = "cleanup"
    /\ CleanupBody(s)
    /\ pc' = [pc EXCEPT ![s] = "closed"]
    /\ UNCHANGED <<auxVars, tickVars, accVars, running, clientThreads, balls, now, first, connName, sent, requests>>

\* cleanup() is invoked again on a session whose thread has finished
CleanupAgain(s) ==
    /\ pc[s] = "closed"
    /\ cleanupCalls[s] < MaxCleanupCalls
    /\ CleanupBody(s)
    /\ UNCHANGED <<auxVars, tickVars, accVars, running, clientThreads, balls, now, pc, first, connName, sent, requests>>

\* NetworkManager.shutdown: thread.stop() for every client thread
Shutdown ==
    /\ running
    /\ running' = FALSE
    /\ sessRunning' = [s \in Ids |-> IF s \in clientThreads THEN FALSE ELSE sessRunning[s]]
    /\ connOpen' = [s \in Ids |-> IF s \in clientThreads THEN FALSE ELSE connOpen[s]]
    /\ clientThreads' = {}
    /\ UNCHANGED <<auxVars, order, tickVars, accVars, connections, players, balls, now, pc, first, connName, sent,
                   requests, cleanupCalls>>

(* ---------------- game loop: NetworkManager.mainloop, lines 97-126 ---------------- *)
\* Player.update: the radius is the linear interpolation between newborn and
\* adult size over growth_duration, by age
Radius(age) ==
    NewbornRadius
        + ((AdultRadius - NewbornRadius) * Min2(age, GrowthDuration)) \div GrowthDuration

PlayerUpdate(p, t) == [p EXCEPT !.radius = Radius(t - p.birth_time)]

\* (a.x - b.x)**2 + (a.y - b.y)**2
DistSq(a, b) == (a.x - b.x) * (a.x - b.x) + (a.y - b.y) * (a.y - b.y)

\* math.sqrt of a square number (the checked worlds keep casters and targets
\* of skills on one row)
Sqrt(n) == CHOOSE r \in 0 .. (WorldWidth + WorldHeight) : r * r = n

\* a / b for a quotient that is whole
Quotient(a, b) == CHOOSE q \in {a \div b} : q * b = a

\* Player.is_colliding(other, require_complete_overlap): with complete overlap
\* the smaller circle lies within the larger one; without, the circles overlap
IsColliding(self, other, require_complete_overlap) ==
    IF require_complete_overlap
    THEN IF self.radius > other.radius
         THEN DistSq(self, other) <= (self.radius - other.radius) * (self.radius - other.radius)
         ELSE DistSq(self, other) <= (other.radius - self.radius) * (other.radius - self.radius)
    ELSE DistSq(self, other) < (self.radius + other.radius) * (self.radius + other.radius)

\* GameManager._enforce_world_boundaries
EnforceWorldBoundaries(o) ==
    [o EXCEPT !.x = Clamp(o.x, WorldWidth, o.radius), !.y = Clamp(o.y, WorldHeight, o.radius)]

\* GameManager._is_in_skill_range
IsInSkillRange(obj1, obj2, skill_radius) ==
    DistSq(obj1, obj2) <= (skill_radius + obj2.radius) * (skill_radius + obj2.radius)

\* scale = max(min_push_force, push_force * (1 - distance / radius)) * force_scale
PushScale(distance, radius) ==
    (IF PushForce * MinPushForceMultiplier * radius >= PushForce * (radius - distance)
     THEN PushForce * MinPushForceMultiplier
     ELSE Quotient(PushForce * (radius - distance), radius)) * PushForceScale

\* variant: the target is pushed away whatever its size
PushOneWhateverSize(caster, target, radius, min_distance) ==
    LET dx == target.x - caster.x
        dy == target.y - caster.y
        distance == Max2(min_distance, Sqrt(dx * dx + dy * dy))
    IN  <<caster,
          EnforceWorldBoundaries([target EXCEPT !.x = @ + Quotient(dx, distance),
                                                !.y = @ + Quotient(dy, distance)])>>

\* the push of one target (lines 130-152 for a player, 156-177 for a ball):
\* an oversized target pushes the caster back, any other target is pushed away
PushOne(caster, target, radius, min_distance) ==
    LET dx == target.x - caster.x
        dy == target.y - caster.y
        distance == Max2(min_distance, Sqrt(dx * dx + dy * dy))
        scale == PushScale(distance, radius)
    IN  IF target.radius > caster.radius * PushSizeThreshold
        THEN <<EnforceWorldBoundaries([caster EXCEPT !.x = @ - Quotient(dx * scale, distance),
                                                     !.y = @ - Quotient(dy * scale, distance)]),
               target>>
        ELSE <<caster,
               EnforceWorldBoundaries([target EXCEPT !.x = @ + Quotient(dx * scale, distance),
                                                     !.y = @ + Quotient(dy * scale, distance)])>>

\* scale = pull_force * (1 - distance / radius) * force_scale
PullScale(distance, radius) == Quotient(PullForce * (radius - distance), radius) * PullForceScale

\* variant: the target is pulled whatever its size
PullOneWhateverSize(caster, target, radius) ==
    LET dx == target.x - caster.x
        dy == target.y - caster.y
        distance == Max2(1, Sqrt(dx * dx + dy * dy))
        scale == PullScale(distance, radius)
    IN  EnforceWorldBoundaries([target EXCEPT !.x = @ - Quotient(dx * scale, distance),
                                              !.y = @ - Quotient(dy * scale, distance)])

\* the pull of one target (lines 196-207 for a player, 211-223 for a ball)
PullOne(caster, target, radius) ==
    LET dx == target.x - caster.x
        dy == target.y - caster.y
        distance == Max2(1, Sqrt(dx * dx + dy * dy))
        scale == PullScale(distance, radius)
    IN  IF target.radius > caster.radius * PullSizeThreshold
        THEN target
        ELSE EnforceWorldBoundaries([target EXCEPT !.x = @ - Quotient(dx * scale, distance),
                                                   !.y = @ - Quotient(dy * scale, distance)])

\* the loop over the other players of a push by player i, from position k of
\* the dict's order
RECURSIVE PushPlayers(_, _, _, _, _)
PushPlayers(ps, ord, i, radius, k) ==
    IF k > Len(ord) THEN ps
    ELSE LET j == ord[k]
         IN  IF j = i \/ ~IsInSkillRange(ps[i], ps[j], radius)
             THEN PushPlayers(ps, ord, i, radius, k + 1)
             ELSE LET r == PushOne(ps[i], ps[j], radius, MinDistance)
                  IN  PushPlayers([ps EXCEPT ![i] = r[1], ![j] = r[2]], ord, i, radius, k + 1)

\* the loop over the balls of a push by player i, from ball k
RECURSIVE PushBalls(_, _, _, _)
PushBalls(w, i, radius, k) ==
    IF k > Len(w.bs) THEN w
    ELSE IF ~IsInSkillRange(w.ps[i], w.bs[k], radius)
         THEN PushBalls(w, i, radius, k + 1)
         ELSE LET r == PushOne(w.ps[i], w.bs[k], radius, 1)
              IN  PushBalls([ps |-> [w.ps EXCEPT ![i] = r[1]], bs |-> [w.bs EXCEPT ![k] = r[2]]],
                            i, radius, k + 1)

RECURSIVE PullPlayers(_, _, _, _, _)
PullPlayers(ps, ord, i, radius, k) ==
    IF k > Len(ord) THEN ps
    ELSE LET j == ord[k]
         IN  IF j = i \/ ~IsInSkillRange(ps[i], ps[j], radius)
             THEN PullPlayers(ps, ord, i, radius, k + 1)
             ELSE PullPlayers([ps EXCEPT ![j] = PullOne(ps[i], ps[j], radius)],
                              ord, i, radius, k + 1)

RECURSIVE PullBalls(_, _, _, _)
PullBalls(w, i, radius, k) ==
    IF k > Len(w.bs) THEN w
    ELSE IF ~IsInSkillRange(w.ps[i], w.bs[k], radius)
         THEN PullBalls(w, i, radius, k + 1)
         ELSE PullBalls([w EXCEPT !.bs[k] = PullOne(w.ps[i], w.bs[k], radius)], i, radius, k + 1)

\* update_skills for player i (lines 109-177): the push skill expires or acts
PushSkill(w, ord, i, t) ==
    IF ~w.ps[i].push_skill_active THEN w
    ELSE IF t > w.ps[i].push_skill_end_time
    THEN [w EXCEPT !.ps[i].push_skill_active = FALSE]
    ELSE LET radius == PushBaseRadius + w.ps[i].radius
         IN  PushBalls([w EXCEPT !.ps = PushPlayers(w.ps, ord, i, radius, 1)], i, radius, 1)

\* update_skills for player i (lines 179-223): the pull skill expires or acts
PullSkill(w, ord, i, t) ==
    IF ~w.ps[i].pull_skill_active THEN w
    ELSE IF t > w.ps[i].pull_skill_end_time
    THEN [w EXCEPT !.ps[i].pull_skill_active = FALSE]
    ELSE LET radius == PullBaseRadius + w.ps[i].radius
         IN  PullBalls([w EXCEPT !.ps = PullPlayers(w.ps, ord, i, radius, 1)], i, radius, 1)

\* GameManager.update_skills: every player of the snapshot list(self.players.items())
RECURSIVE UpdateSkills(_, _, _, _)
UpdateSkills(w, ord, t, k) ==
    IF k > Len(ord) THEN w
    ELSE LET i == ord[k]
             aged == [w EXCEPT !.ps[i] = PlayerUpdate(@, t)]
         IN  UpdateSkills(PullSkill(PushSkill(aged, ord, i, t), ord, i, t), ord, t, k + 1)

\* variant: the amount is taken from the score
DecreaseScore(p, amount) == [p EXCEPT !.score = @ - amount]

\* Player.increase_score
IncreaseScore(p, amount) == [p EXCEPT !.score = @ + amount]

\* the inner loop of check_collision for one player, from ball k: f.p is the
\* player, f.removed the indices of balls_to_remove
RECURSIVE FeedPlayer(_, _, _)
FeedPlayer(f, bs, k) ==
    IF k > Len(bs) THEN f
    ELSE IF k \notin f.removed /\ IsColliding(f.p, bs[k], TRUE)
         THEN FeedPlayer([p |-> IncreaseScore(f.p, GrowthAmount),
                          removed |-> f.removed \cup {k}], bs, k + 1)
         ELSE FeedPlayer(f, bs, k + 1)

\* the outer loop of check_collision, from position k of the dict's order
RECURSIVE FeedPlayers(_, _, _, _, _)
FeedPlayers(ps, bs, ord, removed, k) ==
    IF k > Len(ord) THEN [ps |-> ps, removed |-> removed]
    ELSE LET f == FeedPlayer([p |-> ps[ord[k]], removed |-> removed], bs, 1)
         IN  FeedPlayers([ps EXCEPT ![ord[k]] = f.p], bs, ord, f.removed, k + 1)

\* variant: as many balls as were consumed are deleted from the front
RemoveFirstBalls(bs, removed) == SubSeq(bs, Cardinality(removed) + 1, Len(bs))

\* del balls[i] for every index of balls_to_remove
RemoveBalls(bs, removed) ==
    LET kept == {k \in 1 .. Len(bs) : k \notin removed}
        RECURSIVE Pick(_)
        Pick(k) == IF k > Len(bs) THEN <<>>
                   ELSE IF k \in kept THEN <<bs[k]>> \o Pick(k + 1) ELSE Pick(k + 1)
    IN  Pick(1)

\* GameManager.check_collision
CheckCollision(ps, bs, ord) ==
    LET f == FeedPlayers(ps, bs, ord, {}, 1)
    IN  [ps |-> f.ps, bs |-> RemoveBalls(bs, f.removed), removed |-> f.removed]

\* variant: a size ratio equal to the threshold is enough to eat
AtOrAboveThreshold(larger, smaller) ==
    larger.radius * EatingThresholdDen >= EatingThresholdNum * smaller.radius

\* size_ratio > game_cfg['player_eating_threshold']
AboveThreshold(larger, smaller) ==
    larger.radius * EatingThresholdDen > EatingThresholdNum * smaller.radius

\* the condition of line 81-82: the ratio is above the threshold and the
\* smaller player lies completely inside the larger one
Eats(larger, smaller) == AboveThreshold(larger, smaller) /\ IsColliding(smaller, larger, TRUE)

\* variant: the eaten player keeps its score
EatKeepScore(ps, larger, smaller, pt, t) ==
    [ps EXCEPT ![larger] = IncreaseScore(@, ps[smaller].score),
               ![smaller].birth_time = t,
               ![smaller].x = pt[1],
               ![smaller].y = pt[2]]

\* lines 84-87: the larger player takes the score, the smaller one is reborn at pt
Eat(ps, larger, smaller, pt, t) ==
    [ps EXCEPT ![larger] = IncreaseScore(@, ps[smaller].score),
               ![smaller].score = 0,
               ![smaller].birth_time = t,
               ![smaller].x = pt[1],
               ![smaller].y = pt[2]]

\* dis <= self.player_start_radius + player.radius + padding for no player of ps
ValidPositionIn(ps, x, y) == \A i \in DOMAIN ps : ~TooClose(x, y, ps[i])

\* GameManager.get_start_location(ps): the first valid candidate among the
\* attempts, or, when every attempt hit an invalid point, an unchecked random point
GetStartLocationIn(ps) ==
    {pt \in RandomPoints : ValidPositionIn(ps, pt[1], pt[2])}
    \cup (IF StartLocationAttempts = 0
             \/ \E pt \in RandomPoints : ~ValidPositionIn(ps, pt[1], pt[2])
          THEN RandomPoints ELSE {})

\* one iteration of the inner loop of player_collision for the players i and j;
\* pt is what get_start_location returns if the pair ends in an eat
CollidePair(e, i, j, pt, t) ==
    LET player1 == e.ps[i]
        player2 == e.ps[j]
        larger == IF player1.radius > player2.radius THEN i ELSE j
        smaller == IF player1.radius > player2.radius THEN j ELSE i
    IN  IF ~IsColliding(player1, player2, FALSE) THEN e
        ELSE IF player1.radius = player2.radius THEN e
        ELSE IF ~Eats(e.ps[larger], e.ps[smaller]) THEN e
        ELSE [ps |-> Eat(e.ps, larger, smaller, pt, t),
              eaten |-> e.eaten \cup {smaller},
              taken |-> e.taken + e.ps[smaller].score,
              ok |-> e.ok /\ pt \in GetStartLocationIn(e.ps)]

\* the positions (a, b), a < b, of the pairs player_collision visits
Pairs(n) == {pr \in (1 .. n) \X (1 .. n) : pr[1] < pr[2]}

\* GameManager.player_collision from the pair (a, b) of positions of player_list
RECURSIVE CollidePairs(_, _, _, _, _, _)
CollidePairs(e, ord, a, b, rp, t) ==
    IF a > Len(ord) THEN e
    ELSE IF b > Len(ord) THEN CollidePairs(e, ord, a + 1, a + 2, rp, t)
    ELSE CollidePairs(CollidePair(e, ord[a], ord[b], rp[<<a, b>>], t), ord, a, b + 1, rp, t)

PlayerCollision(ps, ord, rp, t) ==
    CollidePairs([ps |-> ps, eaten |-> {}, taken |-> 0, ok |-> TRUE], ord, 1, 2, rp, t)

\* variant: one ball more than the headroom rule allows
ToAddOneMore(n, cfg) == Min2(cfg.max - n + 1, cfg.max - cfg.min + 2)

\* to_add = min(max_balls - len(self.balls), max_balls - min_balls + 1)
ToAdd(n, cfg) == Min2(cfg.max - n, cfg.max - cfg.min + 1)

\* lines 117-120: the number of balls create_balls is asked for
Replenish(n, cfg) == IF n < cfg.min /\ ToAdd(n, cfg) > 0 THEN ToAdd(n, cfg) ELSE 0

\* GameManager.create_balls(n): n Food at the random points fp
CreateBalls(bs, n, fp) == bs \o [k \in 1 .. n |-> Food(fp[k][1], fp[k][2])]

\* lines 102-103: player.update(delta_time) for every player, from position k
\* of the dict's order
RECURSIVE UpdatePlayers(_, _, _, _)
UpdatePlayers(ps, ord, t, k) ==
    IF k > Len(ord) THEN ps
    ELSE UpdatePlayers([ps EXCEPT ![ord[k]] = PlayerUpdate(@, t)], ord, t, k + 1)

\* the world of a tick after `player.update(delta_time)` of every player
Aged == UpdatePlayers(players, order, now, 1)

\* ... after update_skills
Skilled == UpdateSkills([ps |-> Aged, bs |-> balls], order, now, 1)

\* ... after check_collision
Fed == CheckCollision(Skilled.ps, Skilled.bs, order)

\* One tick of mainloop: the whole `with self.lock:` block.  RespawnPts and
\* FoodPts are the points random.randint is let to produce for the respawns
\* of player_collision and for create_balls.
Tick(RespawnPts, FoodPts) ==
    /\ running
    /\ start
    /\ lastTick.n < MaxTicks
    /\ \E fed \in {Fed}, rp \in [Pairs(Len(order)) -> RespawnPts] :
       \E collided \in {PlayerCollision(fed.ps, order, rp, now)} :
         LET n == Replenish(Len(fed.bs), ballCount)
         IN  /\ collided.ok
             /\ players' = collided.ps
             /\ \E fp \in [1 .. n -> FoodPts] : balls' = CreateBalls(fed.bs, n, fp)
             /\ lastTick' = [n |-> lastTick.n + 1, eaten |-> collided.eaten,
                             taken |-> collided.taken, consumed |-> fed.removed,
                             created |-> n]
    /\ UNCHANGED <<auxVars, accVars, running, connections, clientThreads, now, pc, sessRunning,
                   connOpen, first, connName, sent, requests, cleanupCalls, order, ballCount>>

(* ---------------- the shared lock: handlers, the tick and shutdown step by step ---------------- *)
\* the thread of mainloop, as an owner of the lock
MainThread == NumIds

\* variant: the lock is not consulted
LockIgnored == TRUE

\* `with server.lock:` can be entered by a thread that does not hold it
LockFree == lock = NoThread

\* variant: check_collision stands before update_skills
TickProgramFoodFirst == <<"update", "food", "skills", "eat", "replenish">>

\* the body of mainloop's `with self.lock:`, statement by statement
TickProgram == <<"update", "skills", "food", "eat", "replenish">>

\* mainloop: `while self.running`, `if self.start`, `with self.lock:`
TickBegin ==
    /\ running
    /\ start
    /\ ~inTick
    /\ LockFree
    /\ lastTick.n < MaxTicks
    /\ lock' = MainThread
    /\ inTick' = TRUE
    /\ tickSteps' = <<>>
    /\ UNCHANGED <<net, serverVars, codecVars, ioVars, handling, shutdownCalls>>

\* the next statement of the body
TickRun(RespawnPts, FoodPts) ==
    /\ inTick
    /\ Len(tickSteps) < Len(TickProgram)
    /\ LET step == TickProgram[Len(tickSteps) + 1]
       IN  /\ tickSteps' = Append(tickSteps, step)
           /\ CASE step = "update" ->
                     /\ players' = UpdatePlayers(players, order, now, 1)
                     /\ UNCHANGED balls
                [] step = "skills" ->
                     \E w \in {UpdateSkills([ps |-> players, bs |-> balls], order, now, 1)} :
                        players' = w.ps /\ balls' = w.bs
                [] step = "food" ->
                     \E fed \in {CheckCollision(players, balls, order)} :
                        players' = fed.ps /\ balls' = fed.bs
                [] step = "eat" ->
                     \E rp \in [Pairs(Len(order)) -> RespawnPts] :
                        \E collided \in {PlayerCollision(players, order, rp, now)} :
                           /\ collided.ok
                           /\ players' = collided.ps
                           /\ UNCHANGED balls
                [] step = "replenish" ->
                     LET n == Replenish(Len(balls), ballCount)
                     IN  /\ \E fp \in [1 .. n -> FoodPts] : balls' = CreateBalls(balls, n, fp)
                         /\ UNCHANGED players
    /\ UNCHANGED <<net, codecVars, ioVars, lock, inTick, handling, shutdownCalls, accVars, running,
                   connections, clientThreads, now, pc, sessRunning, connOpen, first, connName,
                   sent, requests, cleanupCalls, order, tickVars>>

\* the end of the `with` block
TickEnd ==
    /\ inTick
    /\ Len(tickSteps) = Len(TickProgram)
    /\ lock' = NoThread
    /\ inTick' = FALSE
    /\ lastTick' = [lastTick EXCEPT !.n = @ + 1]
    /\ UNCHANGED <<net, codecVars, ioVars, tickSteps, handling, shutdownCalls, accVars, running,
                   connections, clientThreads, players, balls, now, pc, sessRunning, connOpen,
                   first, connName, sent, requests, cleanupCalls, order, ballCount>>

\* the packets whose handlers run under the lock
MoveRequest(dx, dy) == [kind |-> "move", dx |-> dx, dy |-> dy]
SkillRequest(skill_name) == [kind |-> "skill", skill_name |-> skill_name]
StateRequest == [kind |-> "get_game_state"]

\* variant: the thread leaves the block without giving the lock up
StillHeldBy(s) == s

\* the owner of the lock once thread s has left its `with` block
ReleasedBy(s) == NoThread

\* _handle_packet, _send_game_state: `with server.lock:` is entered
HandlerEnter(s, req) ==
    /\ Dispatching(s)
    /\ handling[s] = <<>>
    /\ LockFree
    /\ lock' = s
    /\ handling' = [handling EXCEPT ![s] = <<req>>]
    /\ IF req.kind = "get_game_state"
       THEN Request(s, "get_game_state")
       ELSE UNCHANGED requests
    /\ UNCHANGED <<net, codecVars, ioVars, inTick, tickSteps, shutdownCalls, accVars, running,
                   connections, clientThreads, players, balls, now, pc, sessRunning, connOpen,
                   first, connName, sent, cleanupCalls, order, tickVars>>

\* the body of the `with` block and its end.  outcome is that of sendall in
\* _send_game_state, as in HandleGetGameState
HandlerLeave(s, outcome) ==
    /\ handling[s] # <<>>
    /\ outcome \in {"ok", "reset", "oserror"}
    /\ ~connOpen[s] => outcome # "ok"
    /\ LET req == handling[s][1]
           replies == req.kind = "get_game_state" /\ s \in DOMAIN players
       IN  /\ players' =
                 IF s \notin DOMAIN players THEN players
                 ELSE IF req.kind = "move"
                 THEN [players EXCEPT ![s] = PlayerMove(@, req.dx, req.dy)]
                 ELSE IF req.kind = "skill"
                 THEN [players EXCEPT ![s] = UseSkill(@, req.skill_name)]
                 ELSE players
           /\ sent' = IF replies THEN [sent EXCEPT ![s] = Append(@, "game_state")] ELSE sent
           /\ sessRunning' = IF replies /\ outcome = "reset"
                             THEN [sessRunning EXCEPT ![s] = FALSE] ELSE sessRunning
           /\ pc' = IF replies /\ outcome = "oserror"
                    THEN [pc EXCEPT ![s] = "cleanup"] ELSE pc
    /\ lock' = ReleasedBy(s)
    /\ handling' = [handling EXCEPT ![s] = <<>>]
    /\ UNCHANGED <<net, codecVars, ioVars, inTick, tickSteps, shutdownCalls, accVars, running,
                   connections, clientThreads, balls, now, connOpen, first, connName,
                   requests, cleanupCalls, order, tickVars>>

\* cleanup(): stop(), then `with server.lock:` and the removal
LockedCleanup(s) == LockFree /\ handling[s] = <<>> /\ Cleanup(s)

\* the read loop's condition is found false between two messages
LoopExitIdle(s) == handling[s] = <<>> /\ LoopExit(s)

\* shutdown() is invoked: `if not self.running: return`, else stop() for every
\* client thread, without the lock
ShutdownCall ==
    /\ shutdownCalls < MaxShutdownCalls
    /\ shutdownCalls' = shutdownCalls + 1
    /\ IF running
       THEN /\ running' = FALSE
            /\ sessRunning' = [s \in Ids |-> IF s \in clientThreads THEN FALSE ELSE sessRunning[s]]
            /\ connOpen' = [s \in Ids |-> IF s \in clientThreads THEN FALSE ELSE connOpen[s]]
            /\ clientThreads' = {}
       ELSE UNCHANGED <<running, sessRunning, connOpen, clientThreads>>
    /\ UNCHANGED <<net, codecVars, ioVars, lock, inTick, tickSteps, handling, order, tickVars, accVars,
                   connections, players, balls, now, pc, first, connName, sent, requests,
                   cleanupCalls>>

(* ---------------- packets: shared/packets.py ---------------- *)
(* Python values are tagged: [int |-> n], [str |-> s], [list |-> seq] and  *)
(* [dict |-> f] with f a function on tagged keys.  A JSON text is the tree *)
(* of the document: [num |-> literal], [string |-> s], [array |-> seq],    *)
(* [object |-> r] with r a function on strings, or [invalid |-> TRUE] for  *)
(* bytes that are no JSON document.                                         *)
PyInt(n) == [int |-> n]
PyText(s) == [str |-> s]
PyList(l) == [list |-> l]
PyDict(d) == [dict |-> d]

DigitChars == <<"0", "1", "2", "3", "4", "5", "6", "7", "8", "9">>

\* the decimal digits of n >= 0, most significant first
RECURSIVE DigitsOf(_)
DigitsOf(n) == IF n < 10 THEN <<n>> ELSE Append(DigitsOf(n \div 10), n % 10)

\* the integer a sequence of decimal digits denotes
RECURSIVE ValueOf(_)
ValueOf(ds) ==
    IF ds = <<>> THEN 0 ELSE 10 * ValueOf(SubSeq(ds, 1, Len(ds) - 1)) + ds[Len(ds)]

\* the number literal json.dumps writes for an int, and the int json.loads reads
NumberLiteral(n) == [neg |-> n < 0, digits |-> DigitsOf(IF n < 0 THEN 0 - n ELSE n)]
NumberValue(lit) == IF lit.neg THEN 0 - ValueOf(lit.digits) ELSE ValueOf(lit.digits)

\* str(n): the text of a sequence of digits
RECURSIVE DigitText(_)
DigitText(ds) == IF ds = <<>> THEN "" ELSE DigitChars[Head(ds) + 1] \o DigitText(Tail(ds))

\* json.dumps writes every key of a dict as a string: str keys as they are,
\* int keys as their decimal text
KeyText(k) ==
    IF "int" \in DOMAIN k
    THEN [str |-> (IF k.int < 0 THEN "-" ELSE "") \o DigitText(NumberLiteral(k.int).digits)]
    ELSE k

\* json.dumps
RECURSIVE Dumps(_)
Dumps(v) ==
    IF "int" \in DOMAIN v THEN [num |-> NumberLiteral(v.int)]
    ELSE IF "str" \in DOMAIN v THEN [string |-> v.str]
    ELSE IF "list" \in DOMAIN v THEN [array |-> [i \in DOMAIN v.list |-> Dumps(v.list[i])]]
    ELSE [object |-> [k \in {KeyText(q) : q \in DOMAIN v.dict} |->
                         Dumps(v.dict[CHOOSE q \in DOMAIN v.dict : KeyText(q) = k])]]

\* json.loads of a well-formed document: every key of an object is a str
RECURSIVE Loads(_)
Loads(j) ==
    IF "num" \in DOMAIN j THEN PyInt(NumberValue(j.num))
    ELSE IF "string" \in DOMAIN j THEN PyText(j.string)
    ELSE IF "array" \in DOMAIN j THEN PyList([i \in DOMAIN j.array |-> Loads(j.array[i])])
    ELSE PyDict([k \in DOMAIN j.object |-> Loads(j.object[k])])

\* the dataclasses of packets.py: their `type` and their fields
Variants ==
    {"ConnectPacket", "MovePacket", "SkillPacket", "GetGameStatePacket", "PlayerIdPacket",
     "GameStatePacket", "UsernameTakenPacket", "ServerFullPacket", "PingPacket", "PongPacket"}

TypeOf(variant) ==
    CASE variant = "ConnectPacket" -> "connect"
      [] variant = "MovePacket" -> "move"
      [] variant = "SkillPacket" -> "skill"
      [] variant = "GetGameStatePacket" -> "get_game_state"
      [] variant = "PlayerIdPacket" -> "player_id"
      [] variant = "GameStatePacket" -> "game_state"
      [] variant = "UsernameTakenPacket" -> "username_taken"
      [] variant = "ServerFullPacket" -> "server_full"
      [] variant = "PingPacket" -> "ping"
      [] variant = "PongPacket" -> "pong"

FieldsOf(variant) ==
    CASE variant = "ConnectPacket" -> {"name"}
      [] variant = "MovePacket" -> {"dx", "dy"}
      [] variant = "SkillPacket" -> {"skill_name"}
      [] variant = "PlayerIdPacket" -> {"player_id"}
      [] variant = "GameStatePacket" -> {"balls", "players", "game_time"}
      [] variant \in {"UsernameTakenPacket", "ServerFullPacket"} -> {"message"}
      [] OTHER -> {}

\* a Packet object: its class and the values of its fields
PacketOf(variant, fields) == [variant |-> variant, fields |-> fields]

\* Packet.to_dict: asdict(self), and data['type'] = self.type
ToDict(p) ==
    PyDict([k \in {PyText(f) : f \in DOMAIN p.fields \cup {"type"}} |->
               IF k.str = "type" THEN PyText(TypeOf(p.variant)) ELSE p.fields[k.str]])

\* Packet.to_json
ToJson(p) == Dumps(ToDict(p))

\* bool(v)
Truthy(v) ==
    IF "int" \in DOMAIN v THEN v.int # 0
    ELSE IF "str" \in DOMAIN v THEN v.str # ""
    ELSE IF "list" \in DOMAIN v THEN v.list # <<>>
    ELSE DOMAIN v.dict # {}

Raise(error) == [ok |-> FALSE, error |-> error]
Return(p) == [ok |-> TRUE, packet |-> p]

\* the factory of from_json: XPacket(**data) for the class whose type is named
Construct(packet_type, data) ==
    IF "str" \notin DOMAIN packet_type \/ \A v \in Variants : TypeOf(v) # packet_type.str
    THEN Raise("ValueError")
    ELSE LET variant == CHOOSE v \in Variants : TypeOf(v) = packet_type.str
         IN  IF {k.str : k \in DOMAIN data} # FieldsOf(variant)
             THEN Raise("TypeError")
             ELSE Return(PacketOf(variant, [f \in FieldsOf(variant) |-> data[PyText(f)]]))

\* Packet.from_json: the packet, or the exception it raises
FromJson(text) ==
    IF "invalid" \in DOMAIN text THEN Raise("JSONDecodeError")
    ELSE LET data == Loads(text)
         IN  IF "dict" \notin DOMAIN data
             THEN Raise(IF "list" \in DOMAIN data THEN "TypeError" ELSE "AttributeError")
             ELSE IF PyText("type") \notin DOMAIN data.dict
             THEN Raise("KeyError")
             ELSE IF ~Truthy(data.dict[PyText("type")])
             THEN Raise("ValueError")
             ELSE Construct(data.dict[PyText("type")],
                            [k \in DOMAIN data.dict \ {PyText("type")} |-> data.dict[k]])

\* Food.to_dict and Player.to_dict, cut down to the integer fields of the model
FoodToDict(b) == PyDict([k \in {PyText("x"), PyText("y"), PyText("radius")} |-> PyInt(b[k.str])])
PlayerToDict(p) ==
    PyDict([k \in {PyText("id"), PyText("x"), PyText("y"), PyText("radius"), PyText("score")} |->
               PyInt(p[k.str])])

\* GameManager.get_serializable_players: {pid: p.to_dict() ...}, keyed by the
\* integer client ids
GetSerializablePlayers(ps) ==
    PyDict([k \in {PyInt(i) : i \in DOMAIN ps} |-> PlayerToDict(ps[k.int])])

\* the GameStatePacket of _send_game_state
GameState(bs, ps, game_time) ==
    PacketOf("GameStatePacket",
             [balls |-> PyList([i \in DOMAIN bs |-> FoodToDict(bs[i])]),
              players |-> GetSerializablePlayers(ps),
              game_time |-> PyInt(game_time)])

\* to_json is called on the packet
ToJsonStep ==
    /\ outgoing # <<>>
    /\ wire = <<>>
    /\ wire' = <<ToJson(outgoing[1])>>
    /\ UNCHANGED <<net, outgoing, incoming, serverVars, ioVars, lockVars>>

\* from_json is called on the text
FromJsonStep ==
    /\ wire # <<>>
    /\ incoming = <<>>
    /\ incoming' = <<FromJson(wire[1])>>
    /\ UNCHANGED <<net, outgoing, wire, serverVars, ioVars, lockVars>>

(* ---------------- framing and decoding in the read loop: lines 99-125 ---------------- *)
\* buffer[:4]: the width of the length prefix
PrefixLen == 4

\* the largest message the configuration allows (network_cfg max_message_size)
MaxMessageSize == 2

\* network_cfg['client_timeout']
ClientTimeout == 30

\* int.from_bytes(buffer[:4], 'big')
MsgLength(buf) == ((buf[1] * 256 + buf[2]) * 256 + buf[3]) * 256 + buf[4]

\* the inner loop goes on: len(buffer) >= 4 and not len(buffer) < 4 + msg_length
FrameReady(buf) ==
    /\ Len(buf) >= PrefixLen
    /\ Len(buf) >= PrefixLen + MsgLength(buf)

\* buffer = buffer[4+msg_length:]
AfterFrame(buf) == SubSeq(buf, PrefixLen + MsgLength(buf) + 1, Len(buf))

\* except (json.JSONDecodeError, ValueError): the message is logged and dropped
Dropped(error) == error \in {"JSONDecodeError", "ValueError"}

\* select reports data and recv returns a non-empty chunk:
\* last_activity = time.time(); buffer += data
Recv(s, chunk) ==
    /\ pc[s] = "active"
    /\ sessRunning[s]
    /\ running
    /\ connOpen[s]
    /\ ~FrameReady(buffer[s])
    /\ chunk # <<>>
    /\ Len(buffer[s]) + Len(chunk) <= MaxBuffer
    /\ Len(decodeLog[s]) < MaxMsgs
    /\ buffer' = [buffer EXCEPT ![s] = @ \o chunk]
    /\ lastActivity' = [lastActivity EXCEPT ![s] = now]
    /\ UNCHANGED <<net, serverVars, codecVars, lockVars, decodeLog>>

\* variant: the subtraction of the idle test is the other way round
IdleSince(s) == lastActivity[s] - now

\* time.time() - self.last_activity
IdleFor(s) == now - lastActivity[s]

\* select reports nothing within its second and the session has been idle for
\* more than client_timeout: break
IdleTimeout(s) ==
    /\ pc[s] = "active"
    /\ sessRunning[s]
    /\ running
    /\ ~FrameReady(buffer[s])
    /\ IdleFor(s) > ClientTimeout
    /\ pc' = [pc EXCEPT ![s] = "cleanup"]
    /\ UNCHANGED <<auxVars, order, tickVars, accVars, running, connections, clientThreads, players,
                   balls, now, sessRunning, connOpen, first, connName, sent, requests,
                   cleanupCalls>>

\* _handle_packet for the packet from_json returned, replies sent without error
HandlePacket(s, packet) ==
    /\ players' =
          IF s \notin DOMAIN players THEN players
          ELSE IF packet.variant = "MovePacket"
          THEN [players EXCEPT ![s] = PlayerMove(@, packet.fields.dx.int, packet.fields.dy.int)]
          ELSE IF packet.variant = "SkillPacket"
          THEN [players EXCEPT ![s] = UseSkill(@, packet.fields.skill_name.str)]
          ELSE players
    /\ sent' =
          IF packet.variant = "GetGameStatePacket" /\ s \in DOMAIN players
          THEN [sent EXCEPT ![s] = Append(@, "game_state")]
          ELSE IF packet.variant = "PingPacket"
          THEN [sent EXCEPT ![s] = Append(@, "pong")]
          ELSE sent

\* one pass of the inner loop over a complete frame whose payload is the text:
\* the frame is cut off the buffer, the text goes through from_json and the
\* packet through _handle_packet; an exception other than JSONDecodeError and
\* ValueError reaches `except Exception: ... break`
ReadMessage(s, text) ==
    /\ pc[s] = "active"
    /\ sessRunning[s]
    /\ FrameReady(buffer[s])
    /\ MsgLength(buffer[s]) = 0 => "invalid" \in DOMAIN text
    /\ Len(decodeLog[s]) < MaxMsgs
    /\ buffer' = [buffer EXCEPT ![s] = AfterFrame(@)]
    /\ LET r == FromJson(text)
       IN  /\ decodeLog' = [decodeLog EXCEPT ![s] =
                              Append(@, IF r.ok THEN TypeOf(r.packet.variant) ELSE r.error)]
           /\ IF r.ok
              THEN HandlePacket(s, r.packet) /\ UNCHANGED pc
              ELSE /\ pc' = [pc EXCEPT ![s] = IF Dropped(r.error) THEN "active" ELSE "cleanup"]
                   /\ UNCHANGED <<players, sent>>
    /\ UNCHANGED <<net, codecVars, lockVars, lastActivity, order, tickVars, accVars, running, connections,
                   clientThreads, balls, now, sessRunning, connOpen, first, connName,
                   requests, cleanupCalls>>

(* ---------------- the client: client/network.py ---------------- *)
(* The Network object and the one thread that uses it.  `net` holds the     *)
(* object's fields under their names and the thread's position: pc in the   *)
(* caller (connect or _send_with_retry), rpc in the chain of                *)
(* _attempt_reconnect calls, and depth, the number of _attempt_reconnect    *)
(* frames that wait inside send() for a nested chain to return.  A call of  *)
(* _attempt_reconnect from the except clause of another is its last         *)
(* statement and leaves no frame behind in the model.  total counts the     *)
(* reconnection attempts since the last error met by the caller, log holds  *)
(* the outcome of every iteration of _send_with_retry.                      *)
\* _handle_connection_error: _connected = False, and the chain of
\* reconnections is entered if reconnection is wanted
HandleConnectionError(n) ==
    [n EXCEPT !.connected = FALSE,
              !.rpc = IF n.should_reconnect /\ ~n.shutdown_event THEN "enter" ELSE "idle"]

\* the caller meets a transport-level error and goes on at `then` once
\* _handle_connection_error has returned
TransportError(n, then) == [HandleConnectionError(n) EXCEPT !.total = 0, !.pc = then]

\* connect(name): the TCP connect and the handshake succeed, or the socket
\* raises and connect returns False after _handle_connection_error
Connect(ok) ==
    /\ net.pc \in {"idle", "done"}
    /\ ~net.connected
    /\ net' = IF ok
              THEN [net EXCEPT !.should_reconnect = TRUE, !.reconnect_attempts = 0,
                               !.connected = TRUE, !.player_id = TRUE]
              ELSE TransportError([net EXCEPT !.should_reconnect = TRUE,
                                              !.reconnect_attempts = 0], "connect_failed")
    /\ UNCHANGED <<serverVars, codecVars, ioVars, lockVars>>

ConnectReturn ==
    /\ net.pc = "connect_failed"
    /\ net.rpc = "idle"
    /\ net' = [net EXCEPT !.pc = "idle"]
    /\ UNCHANGED <<serverVars, codecVars, ioVars, lockVars>>

\* self._reconnect_attempts = 0 after a successful connect
ResetCounter(n) == 0

\* the except clause of _attempt_reconnect: another attempt if the counter allows
ReconnectExcept(n) ==
    [n EXCEPT !.rpc = IF n.reconnect_attempts < ReconnectAttempts THEN "enter" ELSE "return"]

\* the send of the reconnect packet fails: _send_all calls
\* _handle_connection_error, whose chain runs while this frame waits in
\* send(); without a chain the exception reaches the except clause at once
SendFailed(n) ==
    IF HandleConnectionError(n).rpc = "enter"
    THEN [HandleConnectionError(n) EXCEPT !.depth = @ + 1]
    ELSE ReconnectExcept(HandleConnectionError(n))

\* _attempt_reconnect from its first line.  outcome: "refused" is connect
\* raising; "sent" is connect and the send of the reconnect packet succeeding;
\* "send_failed" is connect succeeding and the socket raising in the send,
\* which enters _handle_connection_error and a nested chain from inside send()
ReconnectAttempt(outcome) ==
    /\ net.rpc = "enter"
    /\ outcome \in {"refused", "sent", "send_failed"}
    /\ outcome = "send_failed" => net.failures < MaxSendFailures
    /\ IF net.reconnect_attempts >= ReconnectAttempts
       THEN net' = [net EXCEPT !.rpc = "return"]
       ELSE LET n == [net EXCEPT !.reconnect_attempts = @ + 1, !.total = @ + 1]
            IN  IF ~n.player_id
                THEN net' = [n EXCEPT !.rpc = "return"]
                ELSE IF outcome = "refused"
                THEN net' = [n EXCEPT !.rpc = IF n.reconnect_attempts < ReconnectAttempts
                                              THEN "enter" ELSE "return"]
                ELSE IF outcome = "sent"
                THEN net' = [n EXCEPT !.connected = TRUE,
                                      !.reconnect_attempts = ResetCounter(n),
                                      !.rpc = "return"]
                ELSE net' = SendFailed([n EXCEPT !.reconnect_attempts = ResetCounter(n),
                                                 !.failures = @ + 1])
    /\ UNCHANGED <<serverVars, codecVars, ioVars, lockVars>>

\* a chain has returned: into the send() of the _attempt_reconnect that waits
\* for it, where the exception goes on to that frame's except clause, or to
\* the caller
ReconnectReturn ==
    /\ net.rpc = "return"
    /\ net' = IF net.depth > 0
              THEN ReconnectExcept([net EXCEPT !.depth = @ - 1])
              ELSE [net EXCEPT !.rpc = "idle"]
    /\ UNCHANGED <<serverVars, codecVars, ioVars, lockVars>>

\* _send_with_retry is called
RetryBegin ==
    /\ net.pc \in {"idle", "done"}
    /\ net.rpc = "idle"
    /\ net' = [net EXCEPT !.pc = "loop", !.attempt = 0, !.log = <<>>, !.result = "none"]
    /\ UNCHANGED <<serverVars, codecVars, ioVars, lockVars>>

\* variant: the loop has no last iteration
NextAttemptForever(n, what) ==
    [n EXCEPT !.log = Append(@, what), !.attempt = @ + 1, !.pc = "loop"]

\* the iteration ends with `what`: the next one begins, or the loop is over
\* and None is returned
NextAttempt(n, what) ==
    [n EXCEPT !.log = Append(@, what),
              !.attempt = IF n.attempt >= SendRetries THEN @ ELSE @ + 1,
              !.pc = IF n.attempt >= SendRetries THEN "done" ELSE "loop"]

\* except Exception: self._connected = False
ExceptException(n) == [n EXCEPT !.connected = FALSE]

\* one iteration up to the send: is_connected() is false and self.reconnect()
\* raises AttributeError (Network has no such method), or send(packet) is
\* called and the socket takes the bytes or raises
RetryIter(sendOk) ==
    /\ net.pc = "loop"
    /\ net.rpc = "idle"
    /\ net' = IF ~net.connected
              THEN NextAttempt(ExceptException(net), "not_connected")
              ELSE IF sendOk
              THEN [net EXCEPT !.pc = "receiving"]
              ELSE TransportError(net, "send_failed")
    /\ UNCHANGED <<serverVars, codecVars, ioVars, lockVars>>

\* receive(): a packet; a text from_json rejects or a length beyond the
\* maximum (ProtocolError); a time-out (TimeoutError of this module, which
\* `except socket.timeout` does not match); the peer closing (None after
\* _handle_connection_error); a socket error
RetryReceive(outcome) ==
    /\ net.pc = "receiving"
    /\ outcome \in {"response", "undecodable", "timeout", "closed", "error"}
    /\ net' = IF outcome = "response"
              THEN [net EXCEPT !.log = Append(@, "response"), !.pc = "done",
                               !.result = "response"]
              ELSE IF outcome = "undecodable"
              THEN NextAttempt(net, "undecodable")
              ELSE IF outcome = "timeout"
              THEN NextAttempt(ExceptException(net), "timeout")
              ELSE IF outcome = "closed"
              THEN TransportError(net, "recv_closed")
              ELSE TransportError(net, "recv_failed")
    /\ UNCHANGED <<serverVars, codecVars, ioVars, lockVars>>

\* _handle_connection_error has returned to send() or receive(): the exception
\* reaches `except Exception`, or receive() returns None and the loop continues
RetryResume ==
    /\ net.pc \in {"send_failed", "recv_failed", "recv_closed"}
    /\ net.rpc = "idle"
    /\ net' = IF net.pc = "recv_closed"
              THEN NextAttempt(net, "closed")
              ELSE NextAttempt(ExceptException(net), net.pc)
    /\ UNCHANGED <<serverVars, codecVars, ioVars, lockVars>>

(* ---------------- specifications ---------------- *)
(* The operations above are composed into several specifications.        *)
(*        Each draws the inputs of the part of the program it is about     *)
(* from their full sets and the other inputs from a sample, which keeps    *)
(* the product of the independent parts (the rate limiter's timestamps,    *)
(* the sessions' handshakes, the packets of the read loop) explorable.     *)
HsOutcomes == {"timeout", "eof", "undecodable", "nonconnect"}
BreakCauses == {"idle_timeout", "peer_closed", "io_error", "exception"}
LoggedTypes == {"player_id", "unhandled", "invalid"}
SendOutcomes == {"ok", "reset", "oserror"}
OneAddr == {"10.0.0.1"}
OneName == {<<"A">>}
OnePoint == {<<Padding, Padding>>}
\* spawn points: a corner of the random range, its far edge on the row and the
\* middle of the row; the middle of the row, its neighbour and a point three away
EdgePoints == {<<Padding, Padding>>, <<WorldWidth - Padding, Row>>, <<Row, Row>>}
RowPoints == {<<Row, Row>>, <<Row + 1, Row>>, <<Row + 3, Row>>}
RowDirs == {<<1, 0>>, <<-1, 0>>}

\* handshakes and session lifecycle, every handshake input
Next ==
    \/ \E ip \in OneAddr, sendOk \in BOOLEAN : acceptCount <= NumIds /\ Accept(ip, sendOk)
    \/ Shutdown
    \/ \E s \in Ids, o \in HsOutcomes : HsNoConnect(s, o)
    \/ \E s \in Ids, name \in Names : HsRecvConnect(s, name)
    \/ \E s \in Ids : HsCheck(s)
    \/ \E s \in Ids, sendOk \in BOOLEAN : HsSendId(s, sendOk)
    \/ \E s \in Ids, pt \in EdgePoints : HsRegister(s, pt)
    \/ \E s \in Ids : LoopExit(s)
    \/ \E s \in Ids, w \in BreakCauses : LoopBreak(s, w)
    \/ \E s \in Ids : Cleanup(s)

Spec == Init /\ [][Next]_vars

\* admission control: both addresses, the clock, the rate limiter's window
NextAdmission ==
    \/ \E ip \in Addrs, sendOk \in BOOLEAN : acceptCount < MaxAccepts /\ Accept(ip, sendOk)
    \/ AdvanceClock
    \/ \E s \in Ids, o \in {"timeout"} : HsNoConnect(s, o)
    \/ \E s \in Ids, name \in OneName : HsRecvConnect(s, name)
    \/ \E s \in Ids : HsCheck(s)
    \/ \E s \in Ids, sendOk \in BOOLEAN : HsSendId(s, sendOk)
    \/ \E s \in Ids, pt \in OnePoint : HsRegister(s, pt)
    \/ \E s \in Ids, w \in {"peer_closed"} : LoopBreak(s, w)
    \/ \E s \in Ids : Cleanup(s)

AdmissionSpec == Init /\ [][NextAdmission]_vars

\* repeated cleanup
NextCleanup ==
    \/ \E ip \in OneAddr, sendOk \in BOOLEAN : acceptCount <= NumIds /\ Accept(ip, sendOk)
    \/ Shutdown
    \/ \E s \in Ids, o \in {"timeout", "eof"} : HsNoConnect(s, o)
    \/ \E s \in Ids, name \in OneName : HsRecvConnect(s, name)
    \/ \E s \in Ids : HsCheck(s)
    \/ \E s \in Ids, sendOk \in BOOLEAN : HsSendId(s, sendOk)
    \/ \E s \in Ids, pt \in OnePoint : HsRegister(s, pt)
    \/ \E s \in Ids : LoopExit(s)
    \/ \E s \in Ids, w \in BreakCauses : LoopBreak(s, w)
    \/ \E s \in Ids : Cleanup(s)
    \/ \E s \in Ids : CleanupAgain(s)

CleanupSpec == Init /\ [][NextCleanup]_vars

\* the read loop's requests and replies: every packet type of an active session
NextRequest ==
    \/ \E ip \in OneAddr, sendOk \in BOOLEAN : acceptCount < MaxConnections /\ Accept(ip, sendOk)
    \/ \E s \in Ids, o \in {"timeout"} : HsNoConnect(s, o)
    \/ \E s \in Ids, name \in Names \ {<<>>} : HsRecvConnect(s, name)
    \/ \E s \in Ids : HsCheck(s)
    \/ \E s \in Ids, sendOk \in BOOLEAN : HsSendId(s, sendOk)
    \/ \E s \in Ids, pt \in OnePoint : HsRegister(s, pt)
    \/ \E s \in Ids, d \in {<<1, 0>>} : HandleMove(s, d[1], d[2])
    \/ \E s \in Ids, k \in {"push"} : HandleSkill(s, k)
    \/ \E s \in Ids, o \in SendOutcomes : HandleGetGameState(s, o)
    \/ \E s \in Ids, sendOk \in BOOLEAN : HandlePing(s, sendOk)
    \/ \E s \in Ids, ty \in LoggedTypes : HandleLogged(s, ty)
    \/ \E s \in Ids : LoopExit(s)
    \/ \E s \in Ids, w \in BreakCauses : LoopBreak(s, w)
    \/ \E s \in Ids : Cleanup(s)

RequestSpec == Init /\ [][NextRequest]_vars

\* the world-changing packets: every direction, every skill name, a world with food
NextMove ==
    \/ \E ip \in OneAddr, sendOk \in BOOLEAN : acceptCount < MaxConnections /\ Accept(ip, sendOk)
    \/ \E s \in Ids, o \in {"timeout"} : HsNoConnect(s, o)
    \/ \E s \in Ids, name \in Names \ {<<>>} : HsRecvConnect(s, name)
    \/ \E s \in Ids : HsCheck(s)
    \/ \E s \in Ids, sendOk \in BOOLEAN : HsSendId(s, sendOk)
    \/ \E s \in Ids, pt \in EdgePoints : HsRegister(s, pt)
    \/ \E s \in Ids, d \in Dirs : HandleMove(s, d[1], d[2])
    \/ \E s \in Ids, k \in SkillNames : HandleSkill(s, k)
    \/ \E s \in Ids, w \in BreakCauses : LoopBreak(s, w)
    \/ \E s \in Ids : Cleanup(s)

MoveSpec == InitFed /\ [][NextMove]_vars

\* the name session s sends: one name for the first session, another for the rest
NameOf(s) == IF s = 0 THEN <<"A">> ELSE <<"a">>

\* food replenishment: the tick over every ball_count up to MaxBallCount and
\* the scenario's 5/10, from every food count up to the maximum, with all
\* food and every spawn at one point
BallCounts ==
    {[min |-> a, max |-> b] : a \in 0 .. MaxBallCount, b \in 0 .. MaxBallCount}
    \cup {[min |-> 5, max |-> 10]}

FoodAt(pt, n) == [k \in 1 .. n |-> Food(pt[1], pt[2])]

InitFood ==
    \E cfg \in {c \in BallCounts : c.min <= c.max} :
        InitState(cfg, {FoodAt(<<Row, Row>>, n) : n \in 0 .. cfg.max})

NextFood ==
    \/ \E ip \in OneAddr, sendOk \in {TRUE} : acceptCount < 1 /\ Accept(ip, sendOk)
    \/ \E s \in Ids : HsRecvConnect(s, NameOf(s))
    \/ \E s \in Ids : HsCheck(s)
    \/ \E s \in Ids, sendOk \in {TRUE} : HsSendId(s, sendOk)
    \/ \E s \in Ids, pt \in {<<Row, Row>>} : HsRegister(s, pt)
    \/ \E s \in Ids, w \in {"peer_closed"} : LoopBreak(s, w)
    \/ \E s \in Ids : Cleanup(s)
    \/ Tick({<<Row, Row>>}, {<<Row, Row>>})

FoodSpec == InitFood /\ [][NextFood]_vars

\* growth and eating: sessions that register at different times on one row,
\* the clock and the tick
NextEat ==
    \/ \E ip \in OneAddr, sendOk \in {TRUE} : acceptCount < MaxConnections /\ Accept(ip, sendOk)
    \/ AdvanceClock
    \/ \E s \in Ids : HsRecvConnect(s, NameOf(s))
    \/ \E s \in Ids : HsCheck(s)
    \/ \E s \in Ids, sendOk \in {TRUE} : HsSendId(s, sendOk)
    \/ \E s \in Ids, pt \in RowPoints : HsRegister(s, pt)
    \/ \E s \in Ids, w \in {"peer_closed"} : LoopBreak(s, w)
    \/ \E s \in Ids : Cleanup(s)
    \/ Tick(RowPoints, {<<Row, Row>>})

EatSpec ==
    InitState([min |-> MinBalls, max |-> MaxBalls],
              InitialFood(MinBalls, MaxBalls, {<<Row, Row>>}))
        /\ [][NextEat]_vars

\* skills: sessions that spawn at one point, move along the row and use their
\* skills, and the tick
NextSkill ==
    \/ \E ip \in OneAddr, sendOk \in {TRUE} : acceptCount < MaxConnections /\ Accept(ip, sendOk)
    \/ \E s \in Ids : HsRecvConnect(s, NameOf(s))
    \/ \E s \in Ids : HsCheck(s)
    \/ \E s \in Ids, sendOk \in {TRUE} : HsSendId(s, sendOk)
    \/ \E s \in Ids, pt \in {<<Row, Row>>} : HsRegister(s, pt)
    \/ \E s \in Ids, d \in RowDirs : HandleMove(s, d[1], d[2])
    \/ \E s \in Ids, k \in {"push", "pull"} : HandleSkill(s, k)
    \/ Tick({<<Row, Row>>}, {<<Row + 1, Row>>})

SkillSpec ==
    InitState([min |-> MinBalls, max |-> MaxBalls],
              InitialFood(MinBalls, MaxBalls, {<<Row + 1, Row>>}))
        /\ [][NextSkill]_vars

\* scores: sessions that register two along the row from the food, walk
\* towards it, eat it, grow and eat each other
ScorePoint == {<<Row + 2, Row>>}
TowardsFood == {<<-1, 0>>}

NextScore ==
    \/ \E ip \in OneAddr, sendOk \in {TRUE} : acceptCount < MaxConnections /\ Accept(ip, sendOk)
    \/ AdvanceClock
    \/ \E s \in Ids : HsRecvConnect(s, NameOf(s))
    \/ \E s \in Ids : HsCheck(s)
    \/ \E s \in Ids, sendOk \in {TRUE} : HsSendId(s, sendOk)
    \/ \E s \in Ids, pt \in ScorePoint : HsRegister(s, pt)
    \/ \E s \in Ids, d \in TowardsFood : HandleMove(s, d[1], d[2])
    \/ \E s \in Ids, w \in {"peer_closed"} : LoopBreak(s, w)
    \/ \E s \in Ids : Cleanup(s)
    \/ Tick(ScorePoint, {<<Row, Row>>})

ScoreSpec ==
    InitState([min |-> MinBalls, max |-> MaxBalls],
              InitialFood(MinBalls, MaxBalls, {<<Row, Row>>}))
        /\ [][NextScore]_vars

\* the same with the push skill
NextScoreSkill ==
    \/ NextScore
    \/ \E s \in Ids, k \in {"push"} : HandleSkill(s, k)

ScoreSkillSpec ==
    InitState([min |-> MinBalls, max |-> MaxBalls],
              InitialFood(MinBalls, MaxBalls, {<<Row, Row>>}))
        /\ [][NextScoreSkill]_vars

\* The codec on its own: a packet drawn from every variant, with zero and
\* negative numbers, a number of two digits, empty and one-letter texts, and
\* game states of up to two players and one food; then to_json, then from_json.
Numbers == {-1, 0, 1, 12}
Texts == {"", "a"}
PlayerMaps == {[i \in D |-> Player(i, <<"A">>, Row + i, Row)] : D \in SUBSET {0, 1}}
FoodLists == {<<>>, <<Food(Row, Row)>>}
Packets ==
    {PacketOf("ConnectPacket", [name |-> PyText(t)]) : t \in Texts}
    \cup {PacketOf("MovePacket", [dx |-> PyInt(a), dy |-> PyInt(b)]) : a, b \in Numbers}
    \cup {PacketOf("SkillPacket", [skill_name |-> PyText(t)]) : t \in SkillNames}
    \cup {PacketOf("PlayerIdPacket", [player_id |-> PyText(t)]) : t \in {"0", "1"}}
    \cup {PacketOf(v, [message |-> PyText(t)]) :
              v \in {"UsernameTakenPacket", "ServerFullPacket"}, t \in Texts}
    \cup {PacketOf(v, <<>>) : v \in {"GetGameStatePacket", "PingPacket", "PongPacket"}}
    \cup {GameState(bs, ps, t) : bs \in FoodLists, ps \in PlayerMaps, t \in {0, 12}}

InitCodec ==
    /\ InitServer([min |-> MaxBalls, max |-> MaxBalls], InitialFood(MaxBalls, MaxBalls, OnePoint))
    /\ outgoing \in {<<p>> : p \in Packets}
    /\ wire = <<>>
    /\ incoming = <<>>
    /\ InitIo
    /\ InitLock
    /\ InitNet

NextCodec == ToJsonStep \/ FromJsonStep

CodecSpec == InitCodec /\ [][NextCodec]_vars

\* One session and its byte stream: chunks that hold half a prefix, a whole
\* prefix (of a message within the maximum, and of one beyond it) and a byte of
\* payload; and the texts a frame may carry: packets, bytes that are no JSON,
\* and JSON that is no packet.
PayloadByte == 7
Header(n) == <<0, 0, 0, n>>
Chunks == {<<0, 0>>, <<0, 1>>, Header(1), Header(MaxMessageSize + 1), <<PayloadByte>>}
InvalidJson == [invalid |-> TRUE]
TypeKey == PyText("type")
GoodTexts ==
    {ToJson(PacketOf("MovePacket", [dx |-> PyInt(1), dy |-> PyInt(0)])),
     ToJson(PacketOf("PingPacket", <<>>))}
BadTexts ==
    {InvalidJson,
     Dumps(PyDict([k \in {PyText("dx"), PyText("dy")} |-> PyInt(1)])),
     Dumps(PyDict([k \in {TypeKey} |-> PyText("")])),
     Dumps(PyDict([k \in {TypeKey} |-> PyText("bogus")])),
     Dumps(PyDict([k \in {TypeKey, PyText("dx")} |->
                      IF k = TypeKey THEN PyText("move") ELSE PyInt(1)])),
     Dumps(PyDict([k \in {TypeKey, PyText("extra")} |->
                      IF k = TypeKey THEN PyText("ping") ELSE PyInt(1)])),
     Dumps(PyList(<<>>)),
     Dumps(PyInt(1))}

NextFrame ==
    \/ (nextId = 0 /\ \E ip \in OneAddr : Accept(ip, TRUE))
    \/ \E s \in Ids : HsRecvConnect(s, NameOf(s))
    \/ \E s \in Ids : HsCheck(s)
    \/ \E s \in Ids : HsSendId(s, TRUE)
    \/ \E s \in Ids, pt \in OnePoint : HsRegister(s, pt)
    \/ \E s \in Ids, chunk \in Chunks : Recv(s, chunk)
    \/ \E s \in Ids, text \in GoodTexts \cup BadTexts : ReadMessage(s, text)
    \/ \E s \in Ids : LoopBreak(s, "peer_closed")
    \/ \E s \in Ids : Cleanup(s)

FrameSpec == Init /\ [][NextFrame]_vars

\* A session whose peer falls silent: data arrives only while the session has
\* not yet been idle for longer than the timeout.  Every thread that can take
\* a step on its own eventually takes it.
PingText == ToJson(PacketOf("PingPacket", <<>>))

NextIdle ==
    \/ (nextId = 0 /\ \E ip \in OneAddr : Accept(ip, TRUE))
    \/ AdvanceClock
    \/ \E s \in Ids : HsRecvConnect(s, NameOf(s))
    \/ \E s \in Ids : HsCheck(s)
    \/ \E s \in Ids : HsSendId(s, TRUE)
    \/ \E s \in Ids, pt \in OnePoint : HsRegister(s, pt)
    \/ \E s \in Ids, chunk \in {Header(1), <<PayloadByte>>} :
          IdleFor(s) <= ClientTimeout /\ Recv(s, chunk)
    \/ \E s \in Ids, text \in {PingText, InvalidJson} : ReadMessage(s, text)
    \/ \E s \in Ids : IdleTimeout(s)
    \/ \E s \in Ids : Cleanup(s)

SessionStep(s) ==
    \/ \E text \in {PingText, InvalidJson} : ReadMessage(s, text)
    \/ IdleTimeout(s)
    \/ Cleanup(s)

IdleSpec == Init /\ [][NextIdle]_vars /\ \A s \in Ids : WF_vars(SessionStep(s))

\* The threads around the lock: sessions whose handlers enter and leave the
\* `with` block in two steps, and the tick statement by statement.
Requests == {MoveRequest(1, 0), SkillRequest("push"), StateRequest}
LockPoints == {<<Row, Row>>, <<Row + 3, Row>>}

NextLock ==
    \/ (nextId < MaxConnections /\ \E ip \in OneAddr : Accept(ip, TRUE))
    \/ \E s \in Ids : HsRecvConnect(s, NameOf(s))
    \/ \E s \in Ids : HsCheck(s)
    \/ \E s \in Ids : HsSendId(s, TRUE)
    \/ \E s \in Ids, pt \in LockPoints : HsRegister(s, pt)
    \/ \E s \in Ids, req \in Requests : HandlerEnter(s, req)
    \/ \E s \in Ids, outcome \in SendOutcomes : HandlerLeave(s, outcome)
    \/ \E s \in Ids : LoopExitIdle(s)
    \/ \E s \in Ids : LockedCleanup(s)
    \/ TickBegin
    \/ TickRun(LockPoints, {<<Row, Row>>})
    \/ TickEnd

LockSpec ==
    InitState([min |-> MinBalls, max |-> MaxBalls],
              InitialFood(MinBalls, MaxBalls, {<<Row, Row>>}))
        /\ [][NextLock]_vars

\* Shutdown among the threads: shutdown() may be invoked at any moment and
\* more than once.  A session thread that can take a step without a message
\* from its peer eventually takes one (the handshake's receive has a timeout,
\* select returns after a second), and so does the main loop inside a tick.
HsEnds == {"timeout", "eof"}

ThreadStep(s) ==
    \/ \E outcome \in HsEnds : HsNoConnect(s, outcome)
    \/ HsCheck(s)
    \/ \E sendOk \in BOOLEAN : HsSendId(s, sendOk)
    \/ \E pt \in OnePoint : HsRegister(s, pt)
    \/ \E outcome \in SendOutcomes : HandlerLeave(s, outcome)
    \/ LoopExitIdle(s)
    \/ LockedCleanup(s)

MainStep == TickRun(OnePoint, {<<Row, Row>>}) \/ TickEnd

NextShutdown ==
    \/ (nextId < MaxConnections /\ \E ip \in OneAddr : Accept(ip, TRUE))
    \/ \E s \in Ids : HsRecvConnect(s, NameOf(s))
    \/ \E s \in Ids : HandlerEnter(s, StateRequest)
    \/ \E s \in Ids : ThreadStep(s)
    \/ TickBegin
    \/ MainStep
    \/ ShutdownCall

ShutdownSpec ==
    /\ InitState([min |-> MinBalls, max |-> MaxBalls],
                 InitialFood(MinBalls, MaxBalls, {<<Row, Row>>}))
    /\ [][NextShutdown]_vars
    /\ \A s \in Ids : WF_vars(ThreadStep(s))
    /\ WF_vars(MainStep)

(* ======================= claims ======================= *)
\* session threads started and not yet cleaned up
Live == {s \in Ids : pc[s] \notin {"unborn", "closed"}}

\* C1 (as stated): no two Players registered in the world at the same time
\* have the same name.
C1_UniqueNames ==
    \A s, u \in DOMAIN players : s # u => players[s].name # players[u].name

HandshakeReplies == {"player_id", "username_taken"}

\* C2: a session whose first message was a connect and that has left the
\* handshake has sent exactly one handshake reply, player_id or username_taken,
\* as its first message; after username_taken it has sent nothing else, is on
\* its way to Closed and its socket is closed once it is there; the connection
\* the acceptor answered with server_full got nothing else, is closed and has
\* no session thread.
C2_OneHandshakeReply ==
    /\ \A s \in Ids :
          (first[s] = "connect" /\ pc[s] \in {"hs_register", "active", "cleanup", "closed"})
          => /\ Len(sent[s]) >= 1
             /\ sent[s][1] \in HandshakeReplies
             /\ Len(SelectSeq(sent[s], LAMBDA m : m \in HandshakeReplies)) = 1
             /\ sent[s][1] = "username_taken"
                => /\ sent[s] = <<"username_taken">>
                   /\ pc[s] \in {"cleanup", "closed"}
                   /\ pc[s] = "closed" => ~connOpen[s]
    /\ ("server_full" \in {acc.sent[i] : i \in 1 .. Len(acc.sent)})
       => (acc.sent = <<"server_full">> /\ acc.closed /\ acc.thread = NoThread)

\* C2 witness: one session was answered player_id and is registered, another
\* was answered username_taken and is closed, and the acceptor has answered a
\* third connection with server_full.
C2_Witness ==
    /\ acc.sent = <<"server_full">>
    /\ \E s, u \in Ids :
          /\ pc[s] = "active" /\ sent[s] = <<"player_id">> /\ s \in DOMAIN players
          /\ pc[u] = "closed" /\ sent[u] = <<"username_taken">> /\ first[u] = "connect"

\* C3 (as stated): in every state in which a session in its handshake or its
\* read loop has sent the player_id reply, its Player is in the players map.
C3_RegisteredBeforeReply ==
    \A s \in Ids :
        (pc[s] \in {"hs_register", "active"} /\ sent[s] # <<>> /\ sent[s][1] = "player_id")
        => s \in DOMAIN players

\* C4 (as stated): no Player is ever registered for a connect whose name
\* length is out of bounds.
C4_InvalidNameNeverRegistered ==
    \A s \in Ids :
        (first[s] = "connect" /\ ~ValidNameLength(connName[s]))
        => (s \notin DOMAIN players /\ pc[s] # "active")

\* an iteration of the acceptor loop has handled a connection
AcceptStep == acceptCount' = acceptCount + 1

\* the attempts of address ip recorded within the last 60 seconds
RecentAttempts(ip) ==
    Cardinality({i \in 1 .. Len(connectionAttempts[ip]) :
                    now - connectionAttempts[ip][i] < RateWindow})

\* the connection the step handled was answered server_full, closed, and got
\* no session thread
RejectedFull ==
    /\ acc'.sent = <<"server_full">>
    /\ acc'.closed
    /\ acc'.thread = NoThread
    /\ nextId' = nextId
    /\ pc' = pc

LiveBound ==
    /\ Cardinality(Live) <= MaxConnections
    /\ DOMAIN players \subseteq Live

\* C5 (as stated): at most max_connections sessions are live, hence at most
\* that many Players registered; a connection accepted while the counter is at
\* max_connections receives server_full, is closed, and gets no session thread.
C5_Original ==
    /\ []LiveBound
    /\ [][(AcceptStep /\ connections >= MaxConnections) => RejectedFull]_vars

\* C5 (amended): the same, for the connections the rate limiter lets pass.
C5_CapEnforced ==
    /\ []LiveBound
    /\ [][(AcceptStep /\ connections >= MaxConnections /\ RecentAttempts(acc'.ip) < RateLimit)
            => RejectedFull]_vars

\* C5 witness: the cap is reached by live sessions and a further connection
\* has been answered server_full.
C5_Witness ==
    /\ Cardinality(Live) = MaxConnections
    /\ connections = MaxConnections
    /\ acc.sent = <<"server_full">>
    /\ acc.thread = NoThread

\* C6: for each address, of any RateLimit + 1 connections let past the rate
\* limiter the first and the last are at least 60 seconds apart; and a
\* connection arriving when 5 attempts of its address are recorded within the
\* last 60 seconds is closed with no bytes sent, gets no session thread, leaves
\* the connection counter alone and is not recorded as an attempt.
C6_RateLimit ==
    /\ [](\A ip \in Addrs : \A i \in 1 .. (Len(passes[ip]) - RateLimit) :
              passes[ip][i + RateLimit] - passes[ip][i] >= RateWindow)
    /\ [][(AcceptStep /\ RecentAttempts(acc'.ip) >= RateLimit)
            => /\ acc'.sent = <<>>
               /\ acc'.closed
               /\ acc'.thread = NoThread
               /\ UNCHANGED <<connections, nextId, pc, passes>>
               /\ Len(connectionAttempts'[acc'.ip]) = RecentAttempts(acc'.ip)]_vars

\* C6 witness: an address has 5 recorded attempts, all let past the limiter,
\* and its next connection was closed silently with no session thread.
C6_Witness ==
    \E ip \in Addrs :
        /\ Len(connectionAttempts[ip]) = RateLimit
        /\ Len(passes[ip]) = RateLimit
        /\ acc.ip = ip /\ acc.sent = <<>> /\ acc.closed /\ acc.thread = NoThread

\* C7 (as stated): every exit path decrements the connection counter once,
\* so whenever no session is live the counter is 0.
C7_CounterReturnsToZero == (Live = {}) => connections = 0

\* C8: an invocation of cleanup on a session that was cleaned up before
\* leaves the players map and the connection counter as they are.
C8_CleanupIdempotent ==
    [][\A s \in Ids :
          (cleanupCalls[s] >= 1 /\ cleanupCalls'[s] = cleanupCalls[s] + 1)
          => (players' = players /\ connections' = connections)]_vars

\* C8 witness: a session that had registered its Player was cleaned up twice
\* while another Player is registered.
C8_Witness ==
    \E s, u \in Ids :
        /\ cleanupCalls[s] = 2
        /\ sent[s] = <<"player_id">>
        /\ u \in DOMAIN players
        /\ connections >= 1

ReplyTo(request) == IF request = "get_game_state" THEN "game_state" ELSE "pong"

\* C9: what a session has sent after its handshake reply is exactly the
\* sequence of replies to the get_game_state and ping packets it dispatched,
\* in their order: game_state for get_game_state, pong for ping, and nothing
\* for any other packet.
C9_RepliesMatchRequests ==
    \A s \in Ids :
        /\ requests[s] # <<>> =>
              sent[s] = <<"player_id">> \o [i \in 1 .. Len(requests[s]) |-> ReplyTo(requests[s][i])]
        /\ requests[s] = <<>> => Len(sent[s]) <= 1

\* C9 witness: a session that moved and used a skill was sent a pong and then
\* a game_state, for a ping followed by a get_game_state.
C9_Witness ==
    \E s \in DOMAIN players :
        /\ requests[s] = <<"ping", "get_game_state">>
        /\ sent[s] = <<"player_id", "pong", "game_state">>
        /\ players[s].push_skill_active
        /\ players[s].y = Padding + NewbornRadius

\* C10: handling a Move of session s changes at most x and y of the Player
\* under s's own id; the other Players, the Food, the connection counter and
\* the other fields of s's Player are unchanged, and without a Player of s the
\* world is unchanged.
C10_MoveFrame ==
    [][\A s \in Ids, d \in Dirs :
          HandleMove(s, d[1], d[2])
          => /\ DOMAIN players' = DOMAIN players
             /\ \A u \in DOMAIN players : u # s => players'[u] = players[u]
             /\ s \in DOMAIN players =>
                   players'[s] = [players[s] EXCEPT !.x = players'[s].x, !.y = players'[s].y]
             /\ s \notin DOMAIN players => players' = players
             /\ UNCHANGED <<balls, connections>>]_vars

\* C10 witness: of two registered Players one has moved (its y is the clamped
\* one) and the other is where it was spawned, in a world with food.
C10_Witness ==
    \E s, u \in DOMAIN players :
        /\ s # u
        /\ players[s].y = Padding + NewbornRadius
        /\ players[u].y = Padding
        /\ balls # <<>>

\* the largest x at which a circle of the given radius fits inside the padding
MaxX(radius) == WorldWidth - Padding - radius

\* C11 (as stated): a move with dx = 1, dy = 0 never decreases the x of the
\* moving Player: x grows while it is below world_width - padding - radius and
\* stays once it is equal to it.
C11_MoveRightMonotone ==
    [][\A s \in DOMAIN players :
          HandleMove(s, 1, 0)
          => /\ players'[s].x >= players[s].x
             /\ players[s].x < MaxX(players[s].radius) => players'[s].x > players[s].x
             /\ players[s].x = MaxX(players[s].radius) => players'[s].x = players[s].x]_vars

\* a circle lies between the paddings of the world
WithinBounds(o) ==
    /\ Padding + o.radius <= o.x /\ o.x <= WorldWidth - Padding - o.radius
    /\ Padding + o.radius <= o.y /\ o.y <= WorldHeight - Padding - o.radius

\* C12 (as stated): in every reachable state every Player and every Food lies
\* between the paddings of the world, by its radius.
C12_AllWithinBounds ==
    /\ \A i \in DOMAIN players : WithinBounds(players[i])
    /\ \A k \in 1 .. Len(balls) : WithinBounds(balls[k])

\* a step of the game loop
TickStep == lastTick'.n = lastTick.n + 1

\* C13 (as stated): after every tick that completes, the food population is at
\* least the configured minimum, whatever the configuration 0 <= min <= max and
\* the food count at the start of the tick.
C13_AtLeastMinAfterTick == lastTick.n > 0 => Len(balls) >= ballCount.min

\* C14: in every reachable state the food population is at most the
\* configured maximum.
C14_AtMostMax == Len(balls) <= ballCount.max

\* C14 witness: a tick has created food and the population stands at the maximum.
C14_Witness == lastTick.created > 0 /\ Len(balls) = ballCount.max

C16_EatRule ==
    [][(TickStep /\ Len(order) = 2)
       => LET ps == Fed.ps
              i == order[1]
              j == order[2]
              sm == IF ps[i].radius < ps[j].radius THEN i ELSE j
              lg == IF ps[i].radius < ps[j].radius THEN j ELSE i
              gap == ps[lg].radius - ps[sm].radius
              contained == DistSq(ps[sm], ps[lg]) <= gap * gap
              above == ps[lg].radius * EatingThresholdDen > EatingThresholdNum * ps[sm].radius
          IN  /\ lg \notin lastTick'.eaten
              /\ ps[i].radius # ps[j].radius
                 => (sm \in lastTick'.eaten <=> (above /\ contained))
              /\ (ps[i].radius = ps[j].radius \/ ~above)
                 => \A k \in {i, j} : /\ players'[k].score = ps[k].score
                                      /\ players'[k].x = ps[k].x
                                      /\ players'[k].y = ps[k].y]_vars

\* C16 witness: a tick with two players has ended with one of them eaten.
C16_Witness == Len(order) = 2 /\ lastTick.eaten # {}

\* the sum of the scores of the players of ps, over the positions k.. of ord
RECURSIVE ScoreSum(_, _, _)
ScoreSum(ps, ord, k) == IF k > Len(ord) THEN 0 ELSE ps[ord[k]].score + ScoreSum(ps, ord, k + 1)

C18_ScoreMonotone ==
    [][\A i \in DOMAIN players \cap DOMAIN players' :
          players'[i].score < players[i].score
             => /\ TickStep
                /\ i \in lastTick'.eaten
                /\ players'[i].score = 0]_vars

\* C18 witness: a Player with a positive score has used its push skill, and a
\* tick has eaten a Player that had a score.
C18_Witness ==
    /\ lastTick.taken > 0
    /\ \E i \in DOMAIN players : players[i].score > 0 /\ players[i].push_skill_active

\* the circles of the player p and the food item b overlap (centre distance
\* <= p.radius + b.radius) and b does not lie wholly inside p
MerelyOverlaps(p, b) ==
    /\ DistSq(p, b) <= (p.radius + b.radius) * (p.radius + b.radius)
    /\ ~IsColliding(p, b, TRUE)

\* C19 (as stated): in the food step of a tick, a food item that merely
\* overlaps a player, without lying wholly inside it, is removed, and the
\* player, if it is the only one, gains the growth amount.
C19_OverlapFeeds ==
    [][TickStep
       => \A i \in DOMAIN Skilled.ps : \A k \in 1 .. Len(Skilled.bs) :
             MerelyOverlaps(Skilled.ps[i], Skilled.bs[k])
                => /\ k \in lastTick'.consumed
                   /\ Len(order) = 1 => Fed.ps[i].score >= Skilled.ps[i].score + GrowthAmount]_vars

\* the larger of the configured push force and the minimum-force floor
PushFloor == Max2(PushForce, PushForce * MinPushForceMultiplier)

\* C20 (as stated): in a tick in which the push skill of a player is active
\* and not expired, and the only other player, not oversized, has the same
\* centre, update_skills displaces that other player by a distance equal to
\* the larger of the push force and the minimum-force floor.
C20_PushAtDistanceZero ==
    [][(TickStep /\ Len(order) = 2)
       => \A i, j \in DOMAIN players :
             (/\ i # j
              /\ Aged[i].push_skill_active /\ now <= Aged[i].push_skill_end_time
              /\ ~Aged[j].push_skill_active
              /\ ~Aged[i].pull_skill_active /\ ~Aged[j].pull_skill_active
              /\ Aged[j].radius <= Aged[i].radius * PushSizeThreshold
              /\ DistSq(Aged[i], Aged[j]) = 0)
             => DistSq(Skilled.ps[j], Aged[j]) = PushFloor * PushFloor]_vars

\* C21: for every packet, decoding the text it is encoded to gives a packet
\* of the same variant with equal field values
C21_RoundTrip ==
    incoming # <<>> => incoming[1] = Return(outgoing[1])

\* a complete length prefix in the buffer announces more than the maximum
Oversize(buf) == Len(buf) >= PrefixLen /\ MsgLength(buf) > MaxMessageSize

\* C22: once a session has read a length prefix larger than the maximum message
\* size, it does not go on accumulating bytes for that message
C22_OversizeNotAccumulated ==
    [][\A s \in Ids : Oversize(buffer[s]) => Len(buffer'[s]) <= Len(buffer[s])]_vars

\* the step frames a message of session s and from_json raises on its text
Undecodable(s) ==
    /\ Len(decodeLog'[s]) > Len(decodeLog[s])
    /\ decodeLog'[s][Len(decodeLog'[s])] \notin {TypeOf(v) : v \in Variants}

\* C23: a framed message that cannot be decoded is dropped: the world is left
\* as it was and the session stays in its read loop
C23_UndecodableDropped ==
    [][\A s \in Ids : Undecodable(s) =>
          /\ pc'[s] = "active"
          /\ sessRunning'[s]
          /\ UNCHANGED <<players, balls>>]_vars

\* C24: a session in its read loop that has received no data for longer than
\* the client timeout eventually finishes, and its player is then gone
C24_IdleSessionCleanedUp ==
    \A s \in Ids :
        (pc[s] = "active" /\ s \in DOMAIN players /\ now - lastActivity[s] > ClientTimeout)
            ~> (pc[s] = "closed" /\ s \notin DOMAIN players)

\* a session that had received messages has left the read loop through the
\* idle test and has been cleaned up
C24_Witness ==
    \E s \in Ids :
        /\ pc[s] = "closed"
        /\ s \notin DOMAIN players
        /\ now - lastActivity[s] > ClientTimeout
        /\ decodeLog[s] # <<>>

\* s is a prefix of t
IsPrefix(s, t) == Len(s) <= Len(t) /\ s = SubSeq(t, 1, Len(s))

\* C29: the statements of a tick run in the order age and radius update,
\* push and pull, food consumption, player eating, replenishment; the main
\* loop holds the lock from the first to the last; a tick that has ended has
\* run all five
C29_TickOrder ==
    /\ IsPrefix(tickSteps, <<"update", "skills", "food", "eat", "replenish">>)
    /\ inTick => lock = MainThread
    /\ ~inTick => Len(tickSteps) \in {0, 5}

\* a tick has run to its end over a world with a player
C29_Witness ==
    /\ ~inTick
    /\ lastTick.n > 0
    /\ Len(tickSteps) = 5
    /\ DOMAIN players # {}

\* C30: a session is inside the handler of a move, a skill or a game state
\* request only while it holds the lock and no tick is between its first and
\* its last statement
C30_HandlersAtomic ==
    \A s \in Ids : handling[s] # <<>> => ~inTick /\ lock = s

\* a tick is between two of its statements while a registered session is in
\* its read loop
C30_Witness ==
    /\ inTick
    /\ Len(tickSteps) \in 1 .. 4
    /\ \E s \in Ids : Dispatching(s) /\ s \in DOMAIN players /\ Len(sent[s]) > 1

\* every session thread has finished
AllClosed == \A s \in Ids : pc[s] \in {"unborn", "closed"}

\* C25: once shutdown has been invoked, every session thread eventually ends,
\* the players map is eventually empty and the lock is free; an invocation of
\* shutdown on a server that is no longer running changes nothing
C25_ShutdownTerminates ==
    /\ [][shutdownCalls' # shutdownCalls /\ ~running =>
            UNCHANGED <<serverVars, lock, inTick, tickSteps, handling>>]_vars
    /\ ~running ~> (AllClosed /\ DOMAIN players = {} /\ lock = NoThread)

\* shutdown has been invoked while a registered session is inside a handler
\* and holds the lock
C25_Witness ==
    /\ ~running
    /\ \E s \in Ids : handling[s] # <<>> /\ lock = s /\ s \in DOMAIN players

\* The client alone: the caller connects and requests at will, the network
\* decides every connect, send and receive, and the client's thread takes the
\* steps of the call it is in for as long as it has one.
ReconnectOutcomes == {"refused", "sent", "send_failed"}
ReceiveOutcomes == {"response", "undecodable", "timeout", "closed", "error"}

ClientRun ==
    \/ ConnectReturn
    \/ \E sendOk \in BOOLEAN : RetryIter(sendOk)
    \/ \E outcome \in ReceiveOutcomes : RetryReceive(outcome)
    \/ RetryResume
    \/ \E outcome \in ReconnectOutcomes : ReconnectAttempt(outcome)
    \/ ReconnectReturn

NextClient ==
    \/ \E ok \in BOOLEAN : Connect(ok)
    \/ RetryBegin
    \/ ClientRun

ClientSpec ==
    /\ InitState([min |-> MaxBalls, max |-> MaxBalls], InitialFood(MaxBalls, MaxBalls, OnePoint))
    /\ [][NextClient]_vars
    /\ WF_vars(ClientRun)


\* C26: after a transport-level error the client makes at most
\* reconnect_attempts reconnection attempts in total and then gives up, also
\* when a reconnection's TCP connect succeeds and the send of the reconnect
\* packet fails: the attempts counted since the error the caller met never
\* exceed the configured number.
C26_AttemptsBounded == net.total <= ReconnectAttempts

\* the iterations of _send_with_retry that called send(packet), the one in
\* progress included
SendAttempts ==
    Cardinality({i \in DOMAIN net.log : net.log[i] # "not_connected"})
        + (IF net.pc \in {"receiving", "send_failed", "recv_failed", "recv_closed"} THEN 1 ELSE 0)

C28_TimeoutRetried ==
    \A i \in DOMAIN net.log :
        (i > 1 /\ net.log[i - 1] = "timeout") => net.log[i] # "not_connected"

\* some thread is inside a block guarded by the shared lock
LockHeld == inTick \/ \E t \in Ids : handling[t] # <<>>

\* C31: every insertion into the shared players map happens while the acting
\* thread holds the shared lock: no session's Player is registered in a step
\* taken while the tick or another session is inside a lock-protected section.
C31_RegisterUnderLock ==
    [][\A s \in Ids :
          (s \notin DOMAIN players /\ s \in DOMAIN players') => ~LockHeld]_vars

\* C32: no thread performs a socket send while it holds the shared lock: a
\* step in which a session's thread passes a message to its socket is never
\* taken by a thread that owns the lock.
C32_NoSendUnderLock ==
    [][\A s \in Ids : sent'[s] # sent[s] => lock # s]_vars

\* Two players of different age on one point: the clock runs until the elder
\* is adult, so that a player that has grown is eaten.
NextRespawn ==
    \/ \E ip \in OneAddr : acceptCount < MaxConnections /\ Accept(ip, TRUE)
    \/ AdvanceClockTo(MaxGrowTime)
    \/ \E s \in Ids : HsRecvConnect(s, NameOf(s))
    \/ \E s \in Ids : HsCheck(s)
    \/ \E s \in Ids : HsSendId(s, TRUE)
    \/ \E s \in Ids : HsRegister(s, <<Row, Row>>)
    \/ Tick({<<Row, Row>>, <<Row + 3, Row>>}, {<<Row, Row>>})

RespawnSpec ==
    InitState([min |-> MinBalls, max |-> MinBalls], InitialFood(MinBalls, MinBalls, {<<Row, Row>>}))
        /\ [][NextRespawn]_vars

\* C33: when a tick in which a player was eaten completes, that player's
\* radius equals the newborn constant, so every snapshot taken after that tick
\* shows the respawned player at newborn size.
C33_RespawnedAtNewbornSize ==
    \A s \in lastTick.eaten \cap DOMAIN players : players[s].radius = NewbornRadius

\* Up to two players join on one point of a world that starts with
\* MaxFeedBalls food items spread over that point and two others.
FeedPoints == {<<Row, Row>>, <<Row + 2, Row>>, <<Row + 3, Row>>}

NextFeed ==
    \/ \E ip \in OneAddr : acceptCount < MaxConnections /\ Accept(ip, TRUE)
    \/ \E s \in Ids : HsRecvConnect(s, NameOf(s))
    \/ \E s \in Ids : HsCheck(s)
    \/ \E s \in Ids : HsSendId(s, TRUE)
    \/ \E s \in Ids : HsRegister(s, <<Row, Row>>)
    \/ Tick({<<Row, Row>>}, FeedPoints)

FeedSpec ==
    InitState([min |-> 0, max |-> MaxFeedBalls], InitialFood(0, MaxFeedBalls, FeedPoints))
        /\ [][NextFeed]_vars

\* position i of the players' iteration order is the first to collide with ball k
FirstToCollide(w, i, k) ==
    /\ IsColliding(w.ps[order[i]], w.bs[k], TRUE)
    /\ \A j \in 1 .. (i - 1) : ~IsColliding(w.ps[order[j]], w.bs[k], TRUE)

\* the growth increments the food step grants to the players from position i on
RECURSIVE Increments(_)
Increments(i) ==
    IF i > Len(order) THEN 0
    ELSE (Fed.ps[order[i]].score - Skilled.ps[order[i]].score) + Increments(i + 1)

\* the index of the j-th ball that is not in removed
NthKept(n, removed, j) ==
    CHOOSE k \in (1 .. n) \ removed : Cardinality({m \in (1 .. k) \ removed : TRUE}) = j

\* C34: in one food-consumption step each food item is credited to at most
\* one player, the first colliding player in iteration order; the number of
\* items removed equals the number of growth increments granted; and the items
\* that were not consumed remain in the list in their original relative order.
C34_FoodStep ==
    [][TickStep
       => /\ lastTick'.consumed = Fed.removed
          /\ \A i \in 1 .. Len(order) :
                Fed.ps[order[i]].score - Skilled.ps[order[i]].score =
                    GrowthAmount * Cardinality({k \in 1 .. Len(Skilled.bs) :
                                                   FirstToCollide(Skilled, i, k)})
          /\ Increments(1) = GrowthAmount * Cardinality(Fed.removed)
          /\ Len(Fed.bs) = Len(Skilled.bs) - Cardinality(Fed.removed)
          /\ \A j \in 1 .. Len(Fed.bs) :
                Fed.bs[j] = Skilled.bs[NthKept(Len(Skilled.bs), Fed.removed, j)]]_vars

\* a tick has run in which two players stood on a food item that lay between
\* two others, different from each other, which were left in the list
C34_Witness ==
    /\ lastTick.n = 1
    /\ Len(order) = 2
    /\ lastTick.consumed = {2}
    /\ Len(balls) = 2
    /\ balls[1] # balls[2]
    /\ players[order[1]].score = GrowthAmount
    /\ players[order[2]].score = 0

\* Skills between players of different size: sessions register along the row
\* at different times, grow with the clock and use push and pull.
NextSizeSkill ==
    \/ \E ip \in OneAddr : acceptCount < MaxConnections /\ Accept(ip, TRUE)
    \/ AdvanceClock
    \/ \E s \in Ids : HsRecvConnect(s, NameOf(s))
    \/ \E s \in Ids : HsCheck(s)
    \/ \E s \in Ids : HsSendId(s, TRUE)
    \/ \E s \in Ids, pt \in RowPoints : HsRegister(s, pt)
    \/ \E s \in Ids, k \in {"push", "pull"} : HandleSkill(s, k)
    \/ Tick({<<Row, Row>>}, {<<Row + 1, Row>>})

SizeSkillSpec ==
    InitState([min |-> MinBalls, max |-> MaxBalls],
              InitialFood(MinBalls, MaxBalls, {<<Row + 1, Row>>}))
        /\ [][NextSizeSkill]_vars

\* in the tick about to run, player i is the only one whose skill acts, it is
\* its push, and player j is within its reach
PushReaches(i, j) ==
    /\ i # j
    /\ Aged[i].push_skill_active /\ now <= Aged[i].push_skill_end_time
    /\ ~Aged[i].pull_skill_active
    /\ ~Aged[j].push_skill_active /\ ~Aged[j].pull_skill_active
    /\ IsInSkillRange(Aged[i], Aged[j], PushBaseRadius + Aged[i].radius)

\* the push treats target as too big for caster
Oversized(caster, target) == target.radius > caster.radius * PushSizeThreshold

\* the object lies where _enforce_world_boundaries would leave it
WithinBoundaries(o) == EnforceWorldBoundaries(o) = o

SamePlace(a, b) == a.x = b.x /\ a.y = b.y

PullActs(i) ==
    /\ Aged[i].pull_skill_active /\ now <= Aged[i].pull_skill_end_time
    /\ ~Aged[i].push_skill_active
    /\ \A j \in DOMAIN players \ {i} :
          ~Aged[j].push_skill_active /\ ~Aged[j].pull_skill_active

\* the pull treats target as too big for caster
TooBigToPull(caster, target) == target.radius > caster.radius * PullSizeThreshold

\* C36: while a player's pull skill is active, the caster's own position is
\* never changed by that pull, and no player and no food item whose radius
\* exceeds caster.radius times the size-threshold multiplier has its position
\* changed by that pull.
C36_PullFrame ==
    [][TickStep
       => \A i \in DOMAIN players :
             PullActs(i)
             => /\ SamePlace(Skilled.ps[i], Aged[i])
                /\ \A j \in DOMAIN players \ {i} :
                      TooBigToPull(Aged[i], Aged[j]) => SamePlace(Skilled.ps[j], Aged[j])
                /\ \A k \in 1 .. Len(balls) :
                      TooBigToPull(Aged[i], balls[k]) => SamePlace(Skilled.bs[k], balls[k])]_vars

\* a tick has run in which the pull of a newborn player moved a food item
\* while a full-grown player within its reach stayed where it had registered
C36_Witness ==
    /\ lastTick.n > 0
    /\ \E i, j \in DOMAIN players :
          /\ players[i].pull_skill_active /\ ~players[i].push_skill_active
          /\ ~players[j].pull_skill_active /\ ~players[j].push_skill_active
          /\ TooBigToPull(players[i], players[j])
          /\ IsInSkillRange(players[i], players[j], PullBaseRadius + players[i].radius)
          /\ players[i].x = Row
          /\ players[j].x = Row + 3
          /\ \E k \in 1 .. Len(balls) : balls[k].x # Row + 1

\* C37: every displacement applied by an active pull moves its target toward
\* the caster: for every target inside the range test (centre distance at
\* most the effective pull radius plus the target's radius) the target's
\* distance to the caster after the pull is not greater than before it.
C37_PullTowardCaster ==
    [][TickStep
       => \A i \in DOMAIN players :
             PullActs(i)
             => LET radius == PullBaseRadius + Aged[i].radius
                IN  /\ \A j \in DOMAIN players \ {i} :
                          IsInSkillRange(Aged[i], Aged[j], radius)
                          => DistSq(Skilled.ps[j], Aged[i]) <= DistSq(Aged[j], Aged[i])
                    /\ \A k \in 1 .. Len(balls) :
                          IsInSkillRange(Aged[i], balls[k], radius)
                          => DistSq(Skilled.bs[k], Aged[i]) <= DistSq(balls[k], Aged[i])]_vars

\* C39: in every reachable state the global connection counter is
\* non-negative and at least the number of Players registered in the players
\* map, under every interleaving of the acceptor, session handshakes and
\* session cleanups.
C39_CounterCoversPlayers ==
    /\ connections >= 0
    /\ connections >= Cardinality(DOMAIN players)

\* a registered session has been cleaned up, which took its connection off
\* the counter, while another session is registered
C39_Witness ==
    /\ \E s \in Ids : cleanupCalls[s] > 0 /\ connName[s] # <<>> /\ s \notin DOMAIN players
    /\ Cardinality(DOMAIN players) = 1
    /\ connections = 1

(* ---------------- the client's handshake: Network.connect ---------------- *)
\* the answers to the connect packet on which connect raises: username_taken
\* and server_full raise ConnectionError, any other packet ProtocolError
Rejections == {"username_taken", "server_full", "unexpected"}

\* connect(name) when the TCP connect succeeds and the server answers the
\* connect packet with a rejection: _connected is set after socket.connect,
\* the answer is decoded and the exception of its branch is raised; neither
\* except clause of connect matches it (both exception classes derive from
\* NetworkError, not from OSError), so it leaves connect with the fields as
\* they are
ConnectRejected(answer) ==
    /\ net.pc \in {"idle", "done"}
    /\ ~net.connected
    /\ net.rejections < MaxRejections
    /\ answer \in Rejections
    /\ net' = [net EXCEPT !.should_reconnect = TRUE, !.reconnect_attempts = 0,
                          !.connected = TRUE, !.rejections = @ + 1]
    /\ UNCHANGED <<serverVars, codecVars, ioVars, lockVars>>

\* is_connected(): connect has created the socket by the time it is asked
IsConnected(n) == n.connected

\* connect's first test: `if self._connected: return True`
ReturnsAtOnce(n) == n.connected

NextConnect ==
    \/ \E ok \in BOOLEAN : Connect(ok)
    \/ \E answer \in Rejections : ConnectRejected(answer)
    \/ RetryBegin
    \/ ClientRun

ConnectSpec ==
    /\ InitState([min |-> MaxBalls, max |-> MaxBalls], InitialFood(MaxBalls, MaxBalls, OnePoint))
    /\ [][NextConnect]_vars

\* a connect call has just been answered with a rejection
RejectedStep == net'.rejections = net.rejections + 1

\* C40: when the client's connect fails because the server answered
\* username_taken or server_full (or with an unexpected packet type), the
\* client ends in the not-connected state: is_connected() is false and no
\* player id is stored, so a later connect call opens a fresh handshake
\* rather than returning success at once.
C40_RejectedNotConnected ==
    [][RejectedStep
       => /\ ~IsConnected(net')
          /\ ~net'.player_id
          /\ ~ReturnsAtOnce(net')]_vars

(* ---------------- the game loop and an exception inside a tick ---------------- *)
\* variant: the exception leaves the loop and `finally: self.shutdown()` runs
ExceptionEndsLoop(r) == FALSE

\* mainloop's `except Exception` (lines 132-134): the error is logged, the
\* thread sleeps and goes back to `while self.running`; r is self.running
CaughtInLoop(r) == r

\* the statement of the tick that is about to run raises an exception derived
\* from Exception: the `with` block gives the lock up on the way out and the
\* statements after it are not run in this iteration
TickRaise ==
    /\ inTick
    /\ Len(tickSteps) < Len(TickProgram)
    /\ lock' = NoThread
    /\ inTick' = FALSE
    /\ tickSteps' = Append(tickSteps, "raised")
    /\ running' = CaughtInLoop(running)
    /\ UNCHANGED <<net, codecVars, ioVars, handling, shutdownCalls, accVars, connections,
                   clientThreads, players, balls, now, pc, sessRunning, connOpen, first,
                   connName, sent, requests, cleanupCalls, order, tickVars>>

\* The main loop among the session threads when a tick can fail.  mainloop
\* comes back to `with self.lock:` every tick period and a handler holds the
\* lock for the length of one handler only, so the loop gets the lock if it
\* is free again and again; inside a tick the main thread runs on.
NextTickError ==
    \/ (nextId < MaxConnections /\ \E ip \in OneAddr : Accept(ip, TRUE))
    \/ \E s \in Ids : HsRecvConnect(s, NameOf(s))
    \/ \E s \in Ids : HandlerEnter(s, StateRequest)
    \/ \E s \in Ids : ThreadStep(s)
    \/ TickBegin
    \/ MainStep
    \/ TickRaise
    \/ ShutdownCall

TickErrorSpec ==
    /\ InitState([min |-> MinBalls, max |-> MaxBalls],
                 InitialFood(MinBalls, MaxBalls, {<<Row, Row>>}))
    /\ [][NextTickError]_vars
    /\ \A s \in Ids : WF_vars(ThreadStep(s))
    /\ WF_vars(MainStep)
    /\ SF_vars(TickBegin)

\* the last tick was left by an exception and no tick has begun since
TickFailed == ~inTick /\ tickSteps # <<>> /\ tickSteps[Len(tickSteps)] = "raised"

\* C38: an exception raised inside one tick never terminates the scheduler
\* loop: it is caught (the step that raises leaves the running flag as it is
\* and the lock free), and while the server's running flag is set a later
\* tick is eventually executed.
C38_TickErrorSurvived ==
    /\ [][(~TickFailed /\ TickFailed') => (running' = running /\ lock' = NoThread)]_vars
    /\ TickFailed ~> (inTick \/ ~running)

\* a tick has failed after its first statements, the server is running and a
\* registered session is in its read loop
C38_Witness ==
    /\ TickFailed
    /\ Len(tickSteps) > 2
    /\ running
    /\ \E s \in Ids : Dispatching(s) /\ s \in DOMAIN players

====
